---- MODULE Spec2Model ----
(***************************************************************************)
(* Model of the entity record of src/modules/osm/entity.js: construction   *)
(* (osmEntity / initialize), local id allocation (osmEntity.id), the       *)
(* internal version stamp (_nextv / touch / update), the d3 key            *)
(* (osmEntity.key) and tag merging (mergeTags).                            *)
(*                                                                         *)
(* JavaScript objects live in `heap`; an object's identity is its index.   *)
(* A string is the sequence of its Unicode code points, one token each.    *)
(* An optional value is <<>> (undefined / absent) or <<x>>.                *)
(*                                                                         *)
(* Graph and History (the edit stack behind context.perform / replace /    *)
(* pop / undo / pauseChangeDispatch) are used by src/unnamed/part_003 but  *)
(* their code is not part of the sources; they are modelled from spec.md   *)
(* sections 3 and 4.2 - 4.4.  So are the spatial Tree (section 4.3) and    *)
(* the crossing-tags validator (section 4.5), the latter together with its *)
(* test, src/unnamed/part_000.                                              *)
(***************************************************************************)
EXTENDS Integers, Sequences, FiniteSets, TLC

VARIABLES heap, nextv, idNext, log, last

\* Graph objects, the history stack and its cursor, change dispatch.
VARIABLES graphs, hstack, hindex, paused, obs, hlast

\* The spatial index, the graph it follows and the ids changed since it was
\* last rebased.
VARIABLES tgraph, tindex, tdirty, tlast

\* The graph of the validator's test, and the issues of the last validate().
VARIABLES cgraph, issues, validated

\* The tile service: its cache object, the requests it has issued, its
\* fields outside the cache, and the viewport.
VARIABLES cache, reqs, svc, viewport, slast

\* The extract operation built for a selection.
VARIABLES extract

\* A Pixi layer, the service registry entry it reads and the handlers
\* registered on each service object.
VARIABLES layer

\* DataLoaderSystem: _cachedData and _inflight, and the fetches it started.
VARIABLES loader, fetches, llast
\* behaviorDrawWay: the closure's variables, and the last handler that ran.
VARIABLES draw, dlast

evars == <<heap, nextv, idNext, log, last>>
hvars == <<graphs, hstack, hindex, paused, obs, hlast>>
tvars == <<tgraph, tindex, tdirty, tlast>>
cvars == <<cgraph, issues, validated>>
svars == <<cache, reqs, svc, viewport, slast>>
ovars == <<extract>>
yvars == <<layer>>
lvars == <<loader, fetches, llast>>
dvars == <<draw, dlast>>
xvars == <<svars, ovars, yvars, lvars, dvars>>
corevars == <<evars, hvars, tvars, cvars>>
exceptTiles == <<corevars, ovars, yvars, lvars, dvars>>
exceptExtract == <<corevars, svars, yvars, lvars, dvars>>
exceptLayer == <<corevars, svars, ovars, lvars, dvars>>
exceptLoader == <<corevars, svars, ovars, yvars, dvars>>
vars == <<evars, hvars, tvars, cvars, xvars>>

\* The parts of the state a specification does not use stay as they are.
NoHistory ==
    /\ graphs = <<>> /\ hstack = <<>> /\ hindex = 0
    /\ paused = <<>> /\ obs = 0 /\ hlast = <<>>

NoTree ==
    /\ tgraph = <<>> /\ tindex = {} /\ tdirty = {} /\ tlast = <<>>

NoCrossing ==
    /\ cgraph = <<>> /\ issues = <<>> /\ validated = FALSE

NoTiles ==
    /\ cache = <<>> /\ reqs = <<>> /\ svc = <<>> /\ viewport = <<>> /\ slast = <<>>

NoExtract ==
    /\ extract = <<>>

NoLayer ==
    /\ layer = <<>>

NoLoader ==
    /\ loader = <<>> /\ fetches = <<>> /\ llast = <<>>

NoDraw ==
    /\ draw = <<>> /\ dlast = <<>>

NoServices ==
    /\ NoTiles /\ NoExtract /\ NoLayer /\ NoLoader /\ NoDraw

\* ------------------------------------------------------------------ bounds
MaxEntities == 3          \* objects allocated in one run
MaxV == 3                 \* version stamps handed out in one run
MaxChain == 1             \* mergeTags applications in one run of SpecMerge
MaxGraphs == 3            \* Graph objects allocated in one run of SpecHistory
MaxStack == 4             \* states on the history stack
MaxReqs == 3              \* tile requests issued in one run of SpecTiles
MaxViewV == 2             \* viewport versions in one run of SpecTiles
MaxResets == 1            \* resetAsync calls after initAsync in one run
MaxSelected == 3          \* selectedIDs of an operation
MaxToggles == 3           \* changes of services.osm in one run of SpecLayer
MaxFetches == 3           \* fetches started in one run of SpecLoader
MaxDrawGraphs == 11       \* graphs created in one run of SpecDraw

\* ------------------------------------------------------- optional values
None == <<>>
Some(x) == <<x>>
Min(a, b) == IF a < b THEN a ELSE b

\* ---------------------------------------------------------------- strings
\* Code points outside the Basic Multilingual Plane take two UTF-16 units.
Astral == "E"
Units(c) == IF c = Astral THEN 2 ELSE 1
Rep(c, n) == [i \in 1..n |-> c]

DigitChars == <<"0", "1", "2", "3", "4", "5", "6", "7", "8", "9">>

RECURSIVE NatToStr(_)
NatToStr(n) ==
    IF n < 10 THEN <<DigitChars[n + 1]>>
    ELSE NatToStr(n \div 10) \o <<DigitChars[(n % 10) + 1]>>

\* String(n) for an integer n
NumToStr(n) == IF n < 0 THEN <<"-">> \o NatToStr(0 - n) ELSE NatToStr(n)

DigitVal(c) == CHOOSE d \in 0..9 : DigitChars[d + 1] = c
IsDigits(s) == \A i \in 1..Len(s) : \E d \in 1..10 : DigitChars[d] = s[i]

RECURSIVE DigitsToNat(_)
DigitsToNat(s) ==
    IF s = <<>> THEN 0
    ELSE 10 * DigitsToNat(SubSeq(s, 1, Len(s) - 1)) + DigitVal(s[Len(s)])

\* Number(s), as the `<` of isNew converts its string operand: None is NaN.
StrToNum(s) ==
    IF s = <<>> THEN Some(0)
    ELSE IF s[1] = "-"
         THEN IF Len(s) > 1 /\ IsDigits(Tail(s))
              THEN Some(0 - DigitsToNat(Tail(s))) ELSE None
         ELSE IF IsDigits(s) THEN Some(DigitsToNat(s)) ELSE None

\* --------------------------------------------------------------- entities
Types == {"changeset", "node", "way", "relation"}
Keys == {"building", "name"}
EmptyTags == [k \in Keys |-> None]
Props == {"id", "type", "tags", "v", "visible"}

\* osmEntity.id.next
IdNextInit == [t \in Types |-> -1]

\* type[0]
TypeChar(type) ==
    CASE type = "changeset" -> "c"
      [] type = "node" -> "n"
      [] type = "way" -> "w"
      [] type = "relation" -> "r"

fromOSM(type, id) == <<TypeChar(type)>> \o NumToStr(id)

toOSM(id) == Tail(id)

\* osmEntity.id.type: None when the first character is not one of c, n, w, r
idType(id) ==
    IF id = <<>> THEN None
    ELSE IF \E t \in Types : TypeChar(t) = id[1]
         THEN Some(CHOOSE t \in Types : TypeChar(t) = id[1])
         ELSE None

\* !!x for an optional string (undefined and '' are falsy) and for an
\* optional type name (never empty)
Truthy(opt) == opt # None /\ opt[1] # <<>>
HasType(opt) == opt # None

key(entity) ==
    (IF entity.id = None THEN <<"undefined">> ELSE entity.id[1])
        \o <<"v">> \o NumToStr(IF entity.v = None THEN 0 ELSE entity.v[1])

\* The own enumerable properties of an entity passed as a source.
AsSource(e) ==
    [set |-> {p \in Props : CASE p = "id" -> e.id # None
                              [] p = "type" -> e.type # None
                              [] p = "tags" -> TRUE
                              [] p = "v" -> e.v # None
                              [] p = "visible" -> e.visible # None},
     id |-> e.id, type |-> e.type, tags |-> Some(e.tags), v |-> e.v,
     visible |-> e.visible]

Attrs(set, id, type, tags) ==
    [set |-> set, id |-> id, type |-> type, tags |-> tags, v |-> None,
     visible |-> None]

\* A machine state threaded through the calls. `log` records, in order, every
\* object construction ("new") and every version assignment ("touch", with
\* the value assigned).
Machine == [heap |-> heap, nextv |-> nextv, idNext |-> idNext, log |-> log]
Ret(m, ret, threw) == [m |-> m, ret |-> ret, threw |-> threw]

\* The loop of initialize: later sources win, an undefined value deletes.
RECURSIVE Assign(_, _)
Assign(obj, sources) ==
    IF sources = <<>> THEN obj
    ELSE LET s == sources[1]
             o == [id |-> IF "id" \in s.set THEN s.id ELSE obj.id,
                   type |-> IF "type" \in s.set /\ s.type # None
                            THEN s.type ELSE obj.type,
                   tags |-> IF "tags" \in s.set
                            THEN (IF s.tags = None THEN EmptyTags ELSE s.tags[1])
                            ELSE obj.tags,
                   v |-> IF "v" \in s.set THEN s.v ELSE obj.v,
                   visible |-> IF "visible" \in s.set THEN s.visible
                               ELSE obj.visible]
         IN Assign(o, Tail(sources))

\* Variant: the counter counts up (next[type]++).
osmEntityIdUp(m, type) ==
    [id |-> fromOSM(type, m.idNext[type]),
     m |-> [m EXCEPT !.idNext[type] = @ + 1]]

\* osmEntity.id(type): the counter is read, then decremented.
osmEntityId(m, type) ==
    [id |-> fromOSM(type, m.idNext[type]),
     m |-> [m EXCEPT !.idNext[type] = @ - 1]]

\* initialize on a fresh object whose prototype carries `protoType`.
initialize(m, protoType, sources) ==
    LET o == Assign([id |-> None, type |-> protoType, tags |-> EmptyTags,
                     v |-> None, visible |-> None], sources)
        alloc == ~Truthy(o.id) /\ HasType(o.type)
        a == osmEntityId(m, o.type[1])
        o1 == IF alloc THEN [o EXCEPT !.id = Some(a.id)] ELSE o
        m1 == IF alloc THEN a.m ELSE m
        o2 == IF o1.visible = None THEN [o1 EXCEPT !.visible = Some(TRUE)] ELSE o1
    IN Ret([m1 EXCEPT !.heap = Append(@, o2),
                      !.log = Append(@, [op |-> "new", obj |-> Len(m1.heap) + 1,
                                         v |-> 0])],
           Len(m1.heap) + 1, FALSE)

\* osmEntity(attrs, ...): dispatch on the first argument, then initialize.
osmEntity(m, sources) ==
    LET attrs == sources[1]
    IN IF HasType(attrs.type) THEN initialize(m, attrs.type, sources)
       ELSE IF Truthy(attrs.id)
            THEN IF idType(attrs.id[1]) = None
                 THEN Ret(m, 0, TRUE)   \* osmEntity[undefined].apply throws
                 ELSE initialize(m, idType(attrs.id[1]), sources)
            ELSE initialize(m, None, sources)

\* Variant: a per-entity version, this.v = (this.v || 0) + 1.
touchPerEntity(m, i) ==
    LET n == (IF m.heap[i].v = None THEN 0 ELSE m.heap[i].v[1]) + 1
    IN Ret([m EXCEPT !.heap[i].v = Some(n),
                     !.log = Append(@, [op |-> "touch", obj |-> i, v |-> n])],
           i, FALSE)

\* Variant: the counter is read but not advanced, this.v = _nextv.
touchNoIncrement(m, i) ==
    Ret([m EXCEPT !.heap[i].v = Some(m.nextv),
                  !.log = Append(@, [op |-> "touch", obj |-> i, v |-> m.nextv])],
        i, FALSE)

\* touch: bump the internal version in place.
touch(m, i) ==
    Ret([m EXCEPT !.heap[i].v = Some(m.nextv),
                  !.nextv = @ + 1,
                  !.log = Append(@, [op |-> "touch", obj |-> i, v |-> m.nextv])],
        i, FALSE)

\* Variant: the patch is assigned onto the receiver, which is then touched.
updateInPlace(m, i, attrs) ==
    LET o == Assign(m.heap[i], <<attrs>>)
        m1 == [m EXCEPT !.heap[i] = o]
    IN Ret([m1 EXCEPT !.heap[i].v = Some(m.nextv),
                      !.nextv = @ + 1,
                      !.log = Append(@, [op |-> "touch", obj |-> i, v |-> m.nextv])],
           i, FALSE)

update(m, i, attrs) ==
    LET r == osmEntity(m, <<AsSource(m.heap[i]), attrs>>)
    IN IF r.threw THEN r ELSE touch(r.m, r.ret)

\* osmId / isNew: [threw, val]
osmId(e) ==
    IF e.id = None THEN [threw |-> TRUE, val |-> <<>>]
    ELSE [threw |-> FALSE, val |-> toOSM(e.id[1])]

isNew(e) ==
    LET o == osmId(e)
        n == StrToNum(o.val)
    IN IF o.threw THEN [threw |-> TRUE, val |-> FALSE]
       ELSE [threw |-> FALSE, val |-> n # None /\ n[1] < 0]

\* ------------------------------------------------------------- mergeTags
\* String.prototype.split(/;\s*/): pieces between a ';' and the whitespace
\* that follows it.
IsSpace(c) == c = " "

RECURSIVE SplitRe(_)
SplitRe(s) ==
    LET semis == {i \in 1..Len(s) : s[i] = ";"}
    IN IF semis = {} THEN <<s>>
       ELSE LET p == CHOOSE i \in semis : \A j \in semis : i <= j
                after == {i \in (p + 1)..Len(s) : ~IsSpace(s[i])}
                q == IF after = {} THEN Len(s) + 1
                     ELSE CHOOSE i \in after : \A j \in after : i <= j
            IN <<SubSeq(s, 1, p - 1)>> \o SplitRe(SubSeq(s, q, Len(s)))

\* split on a value that may be undefined: undefined.split throws.
split(t) ==
    IF t = None THEN [threw |-> TRUE, val |-> <<>>]
    ELSE [threw |-> FALSE, val |-> SplitRe(t[1])]

RECURSIVE Uniq(_, _)
Uniq(list, seen) ==
    IF list = <<>> THEN seen
    ELSE Uniq(Tail(list),
              IF \E i \in 1..Len(seen) : seen[i] = list[1] THEN seen
              ELSE Append(seen, list[1]))

\* utilArrayUnion: the distinct items of a then b, in first-seen order.
utilArrayUnion(a, b) == Uniq(a \o b, <<>>)

RECURSIVE join(_, _)
join(list, sep) ==
    IF list = <<>> THEN <<>>
    ELSE IF Len(list) = 1 THEN list[1]
    ELSE list[1] \o sep \o join(Tail(list), sep)

\* utilUnicodeCharsTruncated: the first `limit` code points.
utilUnicodeCharsTruncated(str, limit) == SubSeq(str, 1, Min(Len(str), limit))

MaxTagChars == 255

Yes == <<"y", "e", "s">>

\* str.slice(0, limit): the first `limit` UTF-16 units; a pair cut in the
\* middle leaves a lone surrogate.
UnitsIn(str, n) == n + Cardinality({i \in 1..n : str[i] = Astral})

TakeUnits(str, budget) ==
    LET fit == {n \in 0..Len(str) : UnitsIn(str, n) <= budget}
        n == CHOOSE x \in fit : \A y \in fit : y <= x
    IN SubSeq(str, 1, n)
           \o (IF n < Len(str) /\ UnitsIn(str, n) < budget
               THEN <<"lone-surrogate">> ELSE <<>>)

Union(t1, t2) == join(utilArrayUnion(split(t1).val, split(t2).val), <<";">>)

\* Variant: the given value is not stored when the receiver has none.
MergedValueNoTake(k, t1, t2) ==
    IF ~Truthy(t1) THEN [val |-> t1, changed |-> TRUE, threw |-> FALSE]
    ELSE IF k = "building"
         THEN IF t2 = Some(Yes) THEN [val |-> t1, changed |-> FALSE, threw |-> FALSE]
              ELSE IF t1 = Some(Yes) THEN [val |-> t2, changed |-> TRUE, threw |-> FALSE]
              ELSE [val |-> t1, changed |-> FALSE, threw |-> FALSE]
    ELSE IF t1 # t2
         THEN [val |-> Some(utilUnicodeCharsTruncated(Union(t1, t2), MaxTagChars)),
               changed |-> TRUE, threw |-> FALSE]
    ELSE [val |-> t1, changed |-> FALSE, threw |-> FALSE]

\* Variant: no special case for the building key.
MergedValueNoBuilding(k, t1, t2) ==
    IF ~Truthy(t1) THEN [val |-> t2, changed |-> TRUE, threw |-> FALSE]
    ELSE IF t1 # t2
         THEN [val |-> Some(utilUnicodeCharsTruncated(Union(t1, t2), MaxTagChars)),
               changed |-> TRUE, threw |-> FALSE]
    ELSE [val |-> t1, changed |-> FALSE, threw |-> FALSE]

\* Variant: the union is cut with str.slice(0, 255), in UTF-16 units.
MergedValueUnits(k, t1, t2) ==
    IF ~Truthy(t1) THEN [val |-> t2, changed |-> TRUE, threw |-> FALSE]
    ELSE IF k = "building"
         THEN IF t2 = Some(Yes) THEN [val |-> t1, changed |-> FALSE, threw |-> FALSE]
              ELSE IF t1 = Some(Yes) THEN [val |-> t2, changed |-> TRUE, threw |-> FALSE]
              ELSE [val |-> t1, changed |-> FALSE, threw |-> FALSE]
    ELSE IF t1 # t2
         THEN [val |-> Some(TakeUnits(Union(t1, t2), MaxTagChars)),
               changed |-> TRUE, threw |-> FALSE]
    ELSE [val |-> t1, changed |-> FALSE, threw |-> FALSE]

\* Variant: both values are split before the receiver's value is tested.
MergedValueSplitFirst(k, t1, t2) ==
    LET s1 == split(t1)
        s2 == split(t2)
    IN IF s1.threw \/ s2.threw THEN [val |-> t1, changed |-> FALSE, threw |-> TRUE]
       ELSE IF ~Truthy(t1) THEN [val |-> t2, changed |-> TRUE, threw |-> FALSE]
       ELSE IF k = "building"
            THEN IF t2 = Some(Yes) THEN [val |-> t1, changed |-> FALSE, threw |-> FALSE]
                 ELSE IF t1 = Some(Yes) THEN [val |-> t2, changed |-> TRUE, threw |-> FALSE]
                 ELSE [val |-> t1, changed |-> FALSE, threw |-> FALSE]
       ELSE IF t1 # t2
            THEN [val |-> Some(utilUnicodeCharsTruncated(
                              join(utilArrayUnion(s1.val, s2.val), <<";">>), MaxTagChars)),
                  changed |-> TRUE, threw |-> FALSE]
       ELSE [val |-> t1, changed |-> FALSE, threw |-> FALSE]

\* One pass of the loop body for key k: t1 is merged[k], t2 is tags[k].
MergedValue(k, t1, t2) ==
    LET keep == [val |-> t1, changed |-> FALSE, threw |-> FALSE]
        take == [val |-> t2, changed |-> TRUE, threw |-> FALSE]
    IN IF ~Truthy(t1) THEN take
       ELSE IF k = "building"
            THEN IF t2 = Some(Yes) THEN keep
                 ELSE IF t1 = Some(Yes) THEN take
                 ELSE keep
       ELSE IF t1 # t2
            THEN LET s1 == split(t1)
                     s2 == split(t2)
                 IN IF s1.threw \/ s2.threw
                    THEN [val |-> t1, changed |-> FALSE, threw |-> TRUE]
                    ELSE [val |-> Some(utilUnicodeCharsTruncated(
                                      join(utilArrayUnion(s1.val, s2.val), <<";">>),
                                      MaxTagChars)),
                          changed |-> TRUE, threw |-> FALSE]
       ELSE keep

mergeTags(m, i, tags) ==
    LET e == m.heap[i]
        given == {k \in Keys : tags[k] # None}
        r == [k \in Keys |-> MergedValue(k, e.tags[k], tags[k])]
        merged == [k \in Keys |-> IF k \in given THEN r[k].val ELSE e.tags[k]]
        changed == \E k \in given : r[k].changed
    IN IF \E k \in given : r[k].threw THEN Ret(m, 0, TRUE)
       ELSE IF changed THEN update(m, i, Attrs({"tags"}, None, None, Some(merged)))
       ELSE Ret(m, i, FALSE)

\* ---------------------------------------------------------------- inputs
Str(tokens) == Some(tokens)
House == <<"h", "o", "u", "s", "e">>
Shed == <<"s", "h", "e", "d">>

Tags(b, n) == [k \in Keys |-> IF k = "building" THEN b ELSE n]

SmallTagMaps ==
    {Tags(Str(Yes), None), Tags(Str(House), Str(<<"a">>))}

\* osmEntity({}), osmEntity({type: 'node'}), osmEntity({type: 'way', tags}),
\* osmEntity({id: 'w-1'}), osmEntity({id: 'x1'})
CreateAttrs ==
    {Attrs({}, None, None, None),
     Attrs({"type"}, None, Some("node"), None),
     Attrs({"type", "tags"}, None, Some("way"), Some(Tags(Str(Yes), None))),
     Attrs({"id"}, Some(<<"w", "-", "1">>), None, None),
     Attrs({"id"}, Some(<<"x", "1">>), None, None)}

\* update({}), update({tags: {...}})
Patches ==
    {Attrs({}, None, None, None),
     Attrs({"tags"}, None, None, Some(Tags(None, Str(<<"b">>))))}

NoEntity == [id |-> None, type |-> None, tags |-> EmptyTags, v |-> None, visible |-> None]
NoAttrs == Attrs({}, None, None, None)

Last(op, recv, attrs, arg, r, val) ==
    [op |-> op, recv |-> recv,
     before |-> IF recv = 0 THEN NoEntity ELSE heap[recv],
     attrs |-> attrs, arg |-> arg, ret |-> r.ret, threw |-> r.threw, val |-> val]

Commit(r) ==
    /\ heap' = r.m.heap
    /\ nextv' = r.m.nextv
    /\ idNext' = r.m.idNext
    /\ log' = r.m.log
    /\ UNCHANGED <<hvars, tvars, cvars, xvars>>

\* ---------------------------------------------------------------- actions
Init ==
    /\ heap = <<>>
    /\ nextv = 0
    /\ idNext = IdNextInit
    /\ log = <<>>
    /\ last = [op |-> "none", recv |-> 0, before |-> NoEntity, attrs |-> NoAttrs,
               arg |-> EmptyTags, ret |-> 0, threw |-> FALSE, val |-> FALSE]
    /\ NoHistory /\ NoTree /\ NoCrossing /\ NoServices

Create(attrs) ==
    /\ Len(heap) < MaxEntities
    /\ LET r == osmEntity(Machine, <<attrs>>)
       IN /\ Commit(r)
          /\ last' = Last("create", 0, attrs, EmptyTags, r, FALSE)

Update(i, attrs) ==
    /\ Len(heap) < MaxEntities
    /\ nextv < MaxV
    /\ LET r == update(Machine, i, attrs)
       IN /\ Commit(r)
          /\ last' = Last("update", i, attrs, EmptyTags, r, FALSE)

Touch(i) ==
    /\ nextv < MaxV
    /\ LET r == touch(Machine, i)
       IN /\ Commit(r)
          /\ last' = Last("touch", i, NoAttrs, EmptyTags, r, FALSE)

MergeTags(i, tags) ==
    /\ Len(heap) < MaxEntities
    /\ nextv < MaxV
    /\ LET r == mergeTags(Machine, i, tags)
       IN /\ Commit(r)
          /\ last' = Last("mergeTags", i, NoAttrs, tags, r, FALSE)

Next ==
    \/ \E attrs \in CreateAttrs : Create(attrs)
    \/ \E i \in DOMAIN heap, attrs \in Patches : Update(i, attrs)
    \/ \E i \in DOMAIN heap : Touch(i)
    \/ \E i \in DOMAIN heap, tags \in SmallTagMaps : MergeTags(i, tags)

Spec == Init /\ [][Next]_vars

\* ------------------------------------------------ mergeTags on its own
\* Tag values that make every branch of the merge happen, with unions on
\* both sides of the 255 code point limit and astral code points.
LongA == Rep("a", 200)
LongC54 == Rep("c", 54)       \* LongA;LongC54 is 255 code points
LongC55 == Rep("c", 55)       \* LongA;LongC55 is 256 code points
LongE == Rep(Astral, 130)     \* 130 code points, 260 UTF-16 units

BuildingVals == {None, Str(<<>>), Str(Yes), Str(House), Str(Shed)}

NameVals ==
    {None, Str(<<>>), Str(<<"a">>), Str(<<"b", ";", " ", "a">>), Str(<<"a", ";">>),
     Str(LongA), Str(LongC54), Str(LongC55), Str(LongE)}

MergeTagMaps == {Tags(b, n) : b \in BuildingVals, n \in NameVals}

\* The receiver is osmEntity({type: 'node', tags}) created in a fresh session.
InitMerge ==
    /\ nextv = 0
    /\ last = [op |-> "none", recv |-> 0, before |-> NoEntity, attrs |-> NoAttrs,
               arg |-> EmptyTags, ret |-> 0, threw |-> FALSE, val |-> FALSE]
    /\ NoHistory /\ NoTree /\ NoCrossing /\ NoServices
    /\ \E tags \in MergeTagMaps :
          LET r == osmEntity([heap |-> <<>>, nextv |-> 0, idNext |-> IdNextInit,
                              log |-> <<>>],
                             <<Attrs({"type", "tags"}, None, Some("node"), Some(tags))>>)
          IN /\ heap = r.m.heap
             /\ idNext = r.m.idNext
             /\ log = r.m.log

MergeStep(i, tags) ==
    /\ Len(heap) <= MaxChain
    /\ LET r == mergeTags(Machine, i, tags)
       IN /\ Commit(r)
          /\ last' = Last("mergeTags", i, NoAttrs, tags, r, FALSE)

NextMerge == \E i \in DOMAIN heap, tags \in MergeTagMaps : MergeStep(i, tags)

SpecMerge == InitMerge /\ [][NextMerge]_vars

\* ====================================================== Graph and History
\* ------------------------------------------------------------------ Graph
\* A layer maps an entity id to an entry: absent, a tombstone, or an entity
\* (a version of it). An entity value is its id with its version.
GIds == {"n1", "w1"}
AbsentEntry == [kind |-> "absent", ver |-> 0]
Tombstone == [kind |-> "tomb", ver |-> 0]
Ent(ver) == [kind |-> "entity", ver |-> ver]

EmptyLayer == [id \in GIds |-> AbsentEntry]
BaseLayer == [id \in GIds |-> Ent(1)]

\* entity(id): local, then base; a tombstone hides the base entry.
graphEntity(g, id) ==
    IF g.local[id].kind = "absent" THEN g.base[id] ELSE g.local[id]

hasEntity(g, id) == graphEntity(g, id).kind = "entity"

\* Variant: replace writes into the receiver's local layer and returns it.
graphReplaceInPlace(gs, gi, id, entry) ==
    [gs |-> [gs EXCEPT ![gi].local[id] = entry], g |-> gi]

\* replace(entity) / remove(entity): a new Graph value sharing the base
\* layer, with the entry installed in its local layer.
graphReplace(gs, gi, id, entry) ==
    [gs |-> Append(gs, [gs[gi] EXCEPT !.local[id] = entry]), g |-> Len(gs) + 1]

graphRemove(gs, gi, id) == graphReplace(gs, gi, id, Tombstone)

\* An action is a function Graph -> Graph: here the sequence of the
\* replace / remove calls it chains; actionNoop has none and returns its
\* argument.
StepReplace(id, ver) == [op |-> "replace", id |-> id, entry |-> Ent(ver)]
StepRemove(id) == [op |-> "remove", id |-> id, entry |-> Tombstone]

RECURSIVE applyAction(_, _, _)
applyAction(gs, gi, steps) ==
    IF steps = <<>> THEN [gs |-> gs, g |-> gi]
    ELSE LET r == IF steps[1].op = "replace"
                  THEN graphReplace(gs, gi, steps[1].id, steps[1].entry)
                  ELSE graphRemove(gs, gi, steps[1].id)
         IN applyAction(r.gs, r.g, Tail(steps))

\* ---------------------------------------------------------------- History
\* The history threaded through the calls; `fired` counts the change
\* notifications dispatched by the call, `pauses` its pauseChangeDispatch
\* calls, `depth` those not yet matched by a resumeChangeDispatch, `low` the
\* lowest depth seen.
HMachine ==
    [graphs |-> graphs, stack |-> hstack, index |-> hindex, paused |-> paused,
     obs |-> obs, fired |-> 0, pauses |-> 0, depth |-> 0, low |-> 0]

\* graph(): the graph at the cursor (0 when the cursor is outside the stack)
currentGraph(hm) == IF hm.index \in DOMAIN hm.stack THEN hm.stack[hm.index].graph ELSE 0

\* Variant: change dispatches whether or not dispatch is paused.
changeAlways(hm) == [hm EXCEPT !.obs = currentGraph(hm), !.fired = @ + 1]

\* change: notify the observers of the current graph, unless paused.
change(hm) ==
    IF hm.paused = None
    THEN [hm EXCEPT !.obs = currentGraph(hm), !.fired = @ + 1]
    ELSE hm

\* Variant: perform pushes above the whole stack, keeping the redo tail.
performNoTruncate(hm, steps, annotation) ==
    LET r == applyAction(hm.graphs, currentGraph(hm), steps)
    IN change([hm EXCEPT !.graphs = r.gs,
                         !.stack = Append(hm.stack,
                                          [graph |-> r.g, annotation |-> annotation]),
                         !.index = Len(hm.stack) + 1])

\* perform(action, annotation): truncate the redo tail, push action(graph).
perform(hm, steps, annotation) ==
    LET r == applyAction(hm.graphs, currentGraph(hm), steps)
    IN change([hm EXCEPT !.graphs = r.gs,
                         !.stack = Append(SubSeq(hm.stack, 1, hm.index),
                                          [graph |-> r.g, annotation |-> annotation]),
                         !.index = @ + 1])

\* replace(action, annotation): the state at the cursor becomes action(graph).
replace(hm, steps, annotation) ==
    LET r == applyAction(hm.graphs, currentGraph(hm), steps)
    IN change([hm EXCEPT !.graphs = r.gs,
                         !.stack[hm.index] = [graph |-> r.g, annotation |-> annotation]])

\* pop(n): n times, while the cursor is above the start, drop the top state
\* and step the cursor back.
RECURSIVE popStates(_, _)
popStates(hm, n) ==
    IF n = 0 \/ hm.index <= 1 THEN hm
    ELSE popStates([hm EXCEPT !.stack = SubSeq(@, 1, Len(@) - 1), !.index = @ - 1],
                   n - 1)

pop(hm, n) == change(popStates(hm, n))

\* Variant: undo goes back to the nearest state that has an annotation.
RECURSIVE backToAnnotated(_)
backToAnnotated(hm) ==
    IF hm.index <= 1 THEN hm
    ELSE LET h1 == [hm EXCEPT !.index = @ - 1]
         IN IF h1.stack[h1.index].annotation # None THEN h1 ELSE backToAnnotated(h1)

undoToAnnotated(hm) == change(backToAnnotated(hm))

\* Variant: undo steps back without looking at the cursor.
undoUnguarded(hm) == change([hm EXCEPT !.index = @ - 1])

\* undo / redo: move the cursor; a no-op at the start / at the end.
undo(hm) == IF hm.index > 1 THEN change([hm EXCEPT !.index = @ - 1]) ELSE hm

redo(hm) == IF hm.index < Len(hm.stack) THEN change([hm EXCEPT !.index = @ + 1]) ELSE hm

\* pauseChangeDispatch / resumeChangeDispatch: the scope remembers the graph
\* it started from; leaving it dispatches one change.
pauseChangeDispatch(hm) ==
    [hm EXCEPT !.paused = IF @ = None THEN Some(currentGraph(hm)) ELSE @,
               !.pauses = @ + 1, !.depth = @ + 1]

resumeChangeDispatch(hm) ==
    LET h1 == [hm EXCEPT !.depth = @ - 1,
                         !.low = IF hm.depth - 1 < @ THEN hm.depth - 1 ELSE @]
    IN IF hm.paused # None THEN change([h1 EXCEPT !.paused = None]) ELSE h1

\* ---------------------------------------------------------------- inputs
\* actionMoveNode-like (one replace), delete-like (replace the way, remove
\* the node), actionNoop without annotation.
HActions ==
    {[steps |-> <<StepReplace("n1", 2)>>, annotation |-> Some("move")],
     [steps |-> <<StepReplace("w1", 2), StepRemove("n1")>>, annotation |-> Some("delete")],
     [steps |-> <<>>, annotation |-> None]}

NoEntities ==
    /\ heap = <<>> /\ nextv = 0 /\ idNext = IdNextInit /\ log = <<>> /\ last = <<>>

HLast(op, steps, hm) ==
    [op |-> op, steps |-> steps, graphs |-> graphs, stack |-> hstack,
     index |-> hindex, paused |-> paused, obs |-> obs, fired |-> hm.fired]

HCommit(op, steps, hm) ==
    /\ graphs' = hm.graphs
    /\ hstack' = hm.stack
    /\ hindex' = hm.index
    /\ paused' = hm.paused
    /\ obs' = hm.obs
    /\ hlast' = HLast(op, steps, hm)
    /\ UNCHANGED <<evars, tvars, cvars, xvars>>

InitHistory ==
    /\ graphs = <<[base |-> BaseLayer, local |-> EmptyLayer]>>
    /\ hstack = <<[graph |-> 1, annotation |-> None]>>
    /\ hindex = 1
    /\ paused = None
    /\ obs = 1
    /\ hlast = [op |-> "none", steps |-> <<>>, graphs |-> <<>>, stack |-> <<>>,
                index |-> 0, paused |-> None, obs |-> 0, fired |-> 0]
    /\ NoEntities /\ NoTree /\ NoCrossing /\ NoServices

Perform(a) ==
    /\ Len(graphs) + Len(a.steps) <= MaxGraphs
    /\ hindex < MaxStack
    /\ HCommit("perform", a.steps, perform(HMachine, a.steps, a.annotation))

Replace(a) ==
    /\ Len(graphs) + Len(a.steps) <= MaxGraphs
    /\ HCommit("replace", a.steps, replace(HMachine, a.steps, a.annotation))

Pop == HCommit("pop", <<>>, pop(HMachine, 1))

Undo == HCommit("undo", <<>>, undo(HMachine))

Redo == HCommit("redo", <<>>, redo(HMachine))

Pause ==
    /\ paused = None
    /\ HCommit("pause", <<>>, pauseChangeDispatch(HMachine))

Resume ==
    /\ paused # None
    /\ HCommit("resume", <<>>, resumeChangeDispatch(HMachine))

NextHistory ==
    \/ \E a \in HActions : Perform(a)
    \/ \E a \in HActions : Replace(a)
    \/ Pop
    \/ Undo
    \/ Redo
    \/ Pause
    \/ Resume

SpecHistory == InitHistory /\ [][NextHistory]_vars

\* ====================================================================== Tree
\* Locations lie on one axis; a bounding box is an interval [lo, hi].
Locs == {0, 1, 2}
Boxes == {b \in [lo : Locs, hi : Locs] : b.lo <= b.hi}
TNodes == {"n1", "n2"}
TWays == {"w1"}
TIds == TNodes \cup TWays
wayNodes == [w \in TWays |-> {"n1", "n2"}]

SetMin(S) == CHOOSE x \in S : \A y \in S : x <= y
SetMax(S) == CHOOSE x \in S : \A y \in S : x >= y

TNode(loc) == [present |-> TRUE, loc |-> loc]
TWay == [present |-> TRUE, loc |-> 0]
TGone == [present |-> FALSE, loc |-> 0]

\* Lines whose extent depends on one of the entities.
parentWays(g, ids) == {w \in TWays : g[w].present /\ wayNodes[w] \cap ids # {}}

\* The bounding box of an entity: a point's location, a line's span.
extent(g, id) ==
    IF id \in TNodes THEN [lo |-> g[id].loc, hi |-> g[id].loc]
    ELSE LET ls == {g[n].loc : n \in wayNodes[id]}
         IN [lo |-> SetMin(ls), hi |-> SetMax(ls)]

TEntry(g, id) == [id |-> id, lo |-> extent(g, id).lo, hi |-> extent(g, id).hi]

intersects(e, box) == e.lo <= box.hi /\ box.lo <= e.hi

\* tree.query(bbox)
query(index, box) == {e.id : e \in {x \in index : intersects(x, box)}}

\* A rebase that inserts the new boxes and leaves the old ones in the index.
rebaseNoPurge(index, g, ids, force) ==
    LET affected == ids \cup parentWays(g, ids)
        here == {id \in affected : g[id].present}
        kept == IF force THEN {e \in index : g[e.id].present} ELSE index
    IN kept \cup {TEntry(g, id) : id \in here}

\* tree.rebase(entities, force): recompute the boxes of the given entities and
\* of the lines that depend on them, take their old boxes out and put the new
\* ones in; with force, also drop the boxes of ids no longer in the graph.
rebase(index, g, ids, force) ==
    LET affected == ids \cup parentWays(g, ids)
        here == {id \in affected : g[id].present}
        kept == {e \in index : e.id \notin here /\ (force => g[e.id].present)}
    IN kept \cup {TEntry(g, id) : id \in here}

TLast(op, ids) == [op |-> op, ids |-> ids, graph |-> tgraph, index |-> tindex]

NoOthers ==
    /\ NoEntities /\ NoHistory

\* graph = new Graph(entities); tree = new Tree(graph); tree.rebase(entities, true)
InitTree ==
    /\ tgraph = [id \in TIds |-> IF id = "n1" THEN TNode(0)
                                 ELSE IF id = "n2" THEN TNode(1) ELSE TWay]
    /\ tindex = rebase({}, tgraph, TIds, TRUE)
    /\ tdirty = {}
    /\ tlast = [op |-> "none", ids |-> {}, graph |-> tgraph, index |-> {}]
    /\ NoOthers /\ NoCrossing /\ NoServices

\* An edit moves a point; the tree is stale until the next rebase.
MoveNode(id, loc) ==
    /\ tgraph[id].present
    /\ tgraph[id].loc # loc
    /\ tgraph' = [tgraph EXCEPT ![id] = TNode(loc)]
    /\ tdirty' = tdirty \cup {id}
    /\ tlast' = TLast("move", {id})
    /\ UNCHANGED <<tindex, evars, hvars, cvars, xvars>>

\* Removing an entity that still has parents is rejected.
RemoveEntity(id) ==
    /\ tgraph[id].present
    /\ parentWays(tgraph, {id}) = {}
    /\ tgraph' = [tgraph EXCEPT ![id] = TGone]
    /\ tdirty' = tdirty \cup {id}
    /\ tlast' = TLast("remove", {id})
    /\ UNCHANGED <<tindex, evars, hvars, cvars, xvars>>

AddEntity(id, loc) ==
    /\ ~tgraph[id].present
    /\ id \in TWays => (loc = 0 /\ \A n \in wayNodes[id] : tgraph[n].present)
    /\ tgraph' = [tgraph EXCEPT ![id] = [present |-> TRUE, loc |-> loc]]
    /\ tdirty' = tdirty \cup {id}
    /\ tlast' = TLast("add", {id})
    /\ UNCHANGED <<tindex, evars, hvars, cvars, xvars>>

\* The tree is rebased with the entities changed since the last rebase, and
\* possibly with others that did not change.
Rebase(extra, force) ==
    /\ tindex' = rebase(tindex, tgraph, tdirty \cup extra, force)
    /\ tdirty' = {}
    /\ tlast' = TLast("rebase", tdirty \cup extra)
    /\ UNCHANGED <<tgraph, evars, hvars, cvars, xvars>>

NextTree ==
    \/ \E id \in TNodes, loc \in Locs : MoveNode(id, loc)
    \/ \E id \in TIds : RemoveEntity(id)
    \/ \E id \in TIds, loc \in Locs : AddEntity(id, loc)
    \/ \E extra \in SUBSET TIds, force \in BOOLEAN : Rebase(extra, force)

SpecTree == InitTree /\ [][NextTree]_vars

\* ============================================== validationAmbiguousCrossingTags
\* The tags the validator and its test read; "" stands for a key that is not
\* set.  MARKING_TAG is the key the test writes literally in its third case.
NoTags == [highway |-> "", footway |-> "", crossing |-> "", markings |-> "",
           MARKING_TAG |-> ""]
CrossingVals == {"", "unmarked", "marked", "informal"}
MarkingVals == {"", "no", "yes", "zebra", "lines", "ladder"}

\* w1tags: none, or a footway crossing with any crossing tags.
W1Tags ==
    {NoTags} \cup
    {[NoTags EXCEPT !.highway = "footway", !.footway = "crossing",
                    !.crossing = c, !.markings = k] :
        c \in CrossingVals, k \in MarkingVals}
\* w2tags: none, or a road.
W2Tags == {NoTags, [NoTags EXCEPT !.highway = "residential"]}
NodeTags ==
    {[NoTags EXCEPT !.crossing = c, !.markings = k] :
        c \in CrossingVals, k \in MarkingVals}
    \cup {[NoTags EXCEPT !.MARKING_TAG = "zebra"]}

osmNode(id, loc, tags) ==
    [id |-> id, type |-> "node", loc |-> loc, nodes |-> <<>>, tags |-> tags]
osmWay(id, nodes, tags) ==
    [id |-> id, type |-> "way", loc |-> <<0, 0>>, nodes |-> nodes, tags |-> tags]

\* graph.base.entities, in insertion order
createWaysWithOneCrossingNode(w1tags, w2tags, nodeTags) ==
    <<osmNode("n-1", <<0, -1>>, NoTags),
      osmNode("n-2", <<0, 1>>, NoTags),
      osmNode("n-3", <<-1, 0>>, NoTags),
      osmNode("n-4", <<1, 0>>, NoTags),
      osmNode("n-5", <<0, 0>>, nodeTags),
      osmWay("w-1", <<"n-1", "n-5", "n-2">>, w1tags),
      osmWay("w-2", <<"n-3", "n-5", "n-4">>, w2tags)>>

InSeq(x, seq) == \E i \in DOMAIN seq : seq[i] = x

\* The lines of the graph that pass through a node, in graph order.
linesThrough(g, id) ==
    SelectSeq(g, LAMBDA e : e.type = "way" /\ InSeq(id, e.nodes))

\* marking state of one side: untagged, unmarked, marked or informal
markingState(tags) ==
    IF tags.crossing # "" THEN tags.crossing
    ELSE IF tags.markings = "" THEN "untagged"
    ELSE IF tags.markings = "no" THEN "unmarked"
    ELSE "marked"

\* marking sub-style of a marked side; "" when the tags name none
markingStyle(tags) ==
    IF tags.markings \in {"", "yes", "no"} THEN "" ELSE tags.markings

\* The line side of a crossing: of the two lines through the node, the one
\* that carries crossing tags (the other is the road it crosses); when
\* neither does, the line side is silent.
lineSide(lines) ==
    IF markingState(lines[1].tags) # "untagged" THEN lines[1].tags
    ELSE lines[2].tags

\* A validator that takes two silent sides for an ambiguity as well.
ambiguousAlsoSilent(line, node) ==
    \/ markingState(line) # markingState(node)
    \/ markingState(line) = "marked" /\ markingStyle(line) # markingStyle(node)
    \/ markingState(line) = "untagged" /\ markingState(node) = "untagged"

\* A validator that flags contradictions only, not a silent other side.
ambiguousContradictionOnly(line, node) ==
    /\ markingState(line) # "untagged"
    /\ markingState(node) # "untagged"
    /\ \/ markingState(line) # markingState(node)
       \/ markingState(line) = "marked" /\ markingStyle(line) # markingStyle(node)

\* The two sides are ambiguous when they differ in state, a silent side
\* against a tagged one included, or are both marked with different
\* sub-styles; never when both are silent.
ambiguous(line, node) ==
    \/ markingState(line) # markingState(node)
    \/ markingState(line) = "marked" /\ markingStyle(line) # markingStyle(node)

\* The order of entity ids that sorting uses.
IdRank == [id \in {"n-1", "n-2", "n-3", "n-4", "n-5", "w-1", "w-2"} |->
              CASE id = "n-1" -> 1 [] id = "n-2" -> 2 [] id = "n-3" -> 3
                [] id = "n-4" -> 4 [] id = "n-5" -> 5 [] id = "w-1" -> 6
                [] id = "w-2" -> 7]

sortIds(ids) ==
    LET S == {ids[i] : i \in DOMAIN ids}
    IN [i \in 1..Cardinality(S) |->
          CHOOSE x \in S : Cardinality({y \in S : IdRank[y] < IdRank[x]}) = i - 1]

\* A key that keeps the entityIds in the order the validator met them.
issueKeyUnsorted(type, ids) == <<type>> \o ids

\* Issue.key: the type and the sorted entityIds
issueKey(type, ids) == <<type>> \o sortIds(ids)

Issue(ids, loc) ==
    [type |-> "ambiguous_crossing_tags", severity |-> "warning",
     entityIds |-> ids, loc |-> loc,
     key |-> issueKey("ambiguous_crossing_tags", ids)]

\* validator(entity, graph), for a node shared between exactly two lines
nodeIssues(entity, g) ==
    LET lines == linesThrough(g, entity.id)
    IN IF entity.type = "node" /\ Len(lines) = 2
          /\ ambiguous(lineSide(lines), entity.tags)
       THEN <<Issue(<<lines[1].id, lines[2].id>>, entity.loc)>>
       ELSE <<>>

\* A validator in which each of the two lines reports the issue as well.
validatorEachEntity(entity, g) ==
    IF entity.type = "node" THEN nodeIssues(entity, g)
    ELSE LET shared == SelectSeq(g, LAMBDA n : n.type = "node"
                                      /\ InSeq(n.id, entity.nodes))
             RECURSIVE each(_)
             each(ns) == IF ns = <<>> THEN <<>>
                         ELSE nodeIssues(Head(ns), g) \o each(Tail(ns))
         IN each(shared)

validator(entity, g) == nodeIssues(entity, g)

\* validate(): the validator over every entity of the graph, concatenated
RECURSIVE validateFrom(_, _)
validateFrom(g, i) ==
    IF i > Len(g) THEN <<>> ELSE validator(g[i], g) \o validateFrom(g, i + 1)

validate(g) == validateFrom(g, 1)

\* The validator over the entities in another order.
RECURSIVE validateInOrder(_, _)
validateInOrder(g, order) ==
    IF order = <<>> THEN <<>>
    ELSE validator(g[Head(order)], g) \o validateInOrder(g, Tail(order))

\* Dedup by key: the first issue of each key.
dedupByKey(iss) ==
    SelectSeq([i \in DOMAIN iss |-> [at |-> i, issue |-> iss[i]]],
              LAMBDA x : \A j \in 1..(x.at - 1) : iss[j].key # x.issue.key)

\* beforeEach: graph = new Rapid.Graph()
InitCrossing ==
    /\ cgraph = <<>>
    /\ issues = <<>>
    /\ validated = FALSE
    /\ NoOthers /\ NoTree /\ NoServices

CreateFixture(w1tags, w2tags, nodeTags) ==
    /\ cgraph = <<>>
    /\ cgraph' = createWaysWithOneCrossingNode(w1tags, w2tags, nodeTags)
    /\ issues' = <<>>
    /\ validated' = FALSE
    /\ UNCHANGED <<evars, hvars, tvars, xvars>>

Validate ==
    /\ ~validated
    /\ issues' = validate(cgraph)
    /\ validated' = TRUE
    /\ UNCHANGED <<cgraph, evars, hvars, tvars, xvars>>

ResetGraph ==
    /\ validated
    /\ cgraph' = <<>>
    /\ issues' = <<>>
    /\ validated' = FALSE
    /\ UNCHANGED <<evars, hvars, tvars, xvars>>

NextCrossing ==
    \/ \E w1tags \in W1Tags, w2tags \in W2Tags, nodeTags \in NodeTags :
          CreateFixture(w1tags, w2tags, nodeTags)
    \/ Validate
    \/ ResetGraph

SpecCrossing == InitCrossing /\ [][NextCrossing]_vars

\* ====================================================== HudhudStreetsService
Tiles == {"t1", "t2"}
TileOrder == <<"t1", "t2">>
\* this._tiler.getTiles(viewport).tiles
Views == {{"t1"}, {"t2"}, {"t1", "t2"}}
\* How a fetch ends unless it was aborted: data, a network error, a response
\* that is not ok.
Outcomes == {"ok", "error", "badstatus"}
Null == -1

\* data.currentPageItems of a tile's response
ImagesOf(tile) == {tile}

NewCache(gen) ==
    [gen |-> gen, rtree |-> {}, inflight |-> [t \in Tiles |-> 0],
     loaded |-> {}, images |-> {}]

TileMachine ==
    [cache |-> cache, reqs |-> reqs, svc |-> svc,
     emitted |-> 0, redraws |-> 0, logged |-> 0]

\* inflight.controller.abort() for a set of requests
abortAll(rs, ids) ==
    [i \in DOMAIN rs |-> IF i \in ids THEN [rs[i] EXCEPT !.aborted = TRUE] ELSE rs[i]]

InflightIds(c, tiles) == {c.inflight[t] : t \in tiles} \ {0}

resetAsync(m) ==
    [m EXCEPT !.reqs = abortAll(@, InflightIds(m.cache, Tiles)),
              !.cache = NewCache(m.cache.gen + 1),
              !.svc.lastv = Null]

loadTileAsync(m, tile) ==
    IF tile \in m.cache.loaded \/ m.cache.inflight[tile] # 0 THEN m
    ELSE [m EXCEPT !.reqs = Append(@, [tile |-> tile, gen |-> m.cache.gen,
                                       aborted |-> FALSE, state |-> "pending"]),
                   !.cache.inflight[tile] = Len(m.reqs) + 1]

RECURSIVE loadEach(_, _, _)
loadEach(m, tiles, i) ==
    IF i > Len(TileOrder) THEN m
    ELSE loadEach(IF TileOrder[i] \in tiles THEN loadTileAsync(m, TileOrder[i]) ELSE m,
                  tiles, i + 1)

loadTiles(m, vp) ==
    IF m.svc._lastv = vp.v THEN m
    ELSE LET m1 == [m EXCEPT !.svc._lastv = vp.v]
             m2 == [m1 EXCEPT !.reqs = abortAll(@, InflightIds(m1.cache, Tiles \ vp.tiles))]
         IN loadEach(m2, vp.tiles, 1)

\* How the promise of fetch(url, {signal}).then(utilFetchResponse) settles.
settled(q, outcome) ==
    IF q.aborted THEN "abort" ELSE IF outcome = "ok" THEN "ok" ELSE "error"

\* The .then(data => ...) of a request that stores whatever arrives, aborted
\* or not.
completeIgnoringAbort(m, r, outcome) ==
    LET q == m.reqs[r]
        m1 == [m EXCEPT !.reqs[r].state = outcome]
        m2 == IF outcome = "ok"
              THEN [m1 EXCEPT !.cache.loaded = @ \cup {q.tile},
                              !.cache.images = @ \cup ImagesOf(q.tile),
                              !.cache.rtree = @ \cup ImagesOf(q.tile),
                              !.redraws = 1, !.emitted = 1]
              ELSE [m1 EXCEPT !.logged = 1]
    IN [m2 EXCEPT !.cache.inflight[q.tile] = 0]

\* A chain without its .finally: a failed fetch keeps its in-flight entry.
completeNoFinally(m, r, outcome) ==
    LET q == m.reqs[r]
        how == settled(q, outcome)
        m1 == [m EXCEPT !.reqs[r].state = how]
    IN IF how = "ok"
       THEN [m1 EXCEPT !.cache.loaded = @ \cup {q.tile},
                       !.cache.images = @ \cup ImagesOf(q.tile),
                       !.cache.rtree = @ \cup ImagesOf(q.tile),
                       !.redraws = 1, !.emitted = 1,
                       !.cache.inflight[q.tile] = 0]
       ELSE IF how = "abort" THEN [m1 EXCEPT !.cache.inflight[q.tile] = 0]
       ELSE [m1 EXCEPT !.logged = 1]

\* The .then / .catch / .finally chain of _loadTileAsync, run when the fetch
\* of request r settles; this._cache is the cache of that moment.
complete(m, r, outcome) ==
    LET q == m.reqs[r]
        how == settled(q, outcome)
        m1 == [m EXCEPT !.reqs[r].state = how]
        m2 == IF how = "ok"
              THEN [m1 EXCEPT !.cache.loaded = @ \cup {q.tile},
                              !.cache.images = @ \cup ImagesOf(q.tile),
                              !.cache.rtree = @ \cup ImagesOf(q.tile),
                              !.redraws = 1, !.emitted = 1]
              ELSE IF how = "abort" THEN m1
              ELSE [m1 EXCEPT !.logged = 1]
    IN [m2 EXCEPT !.cache.inflight[q.tile] = 0]

SLast(op, r, outcome, m) ==
    [op |-> op, req |-> r, outcome |-> outcome, cache |-> cache, reqs |-> reqs,
     svc |-> svc, viewport |-> viewport,
     emitted |-> m.emitted, redraws |-> m.redraws, logged |-> m.logged]

NoCore ==
    /\ NoEntities /\ NoHistory /\ NoTree /\ NoCrossing

SCommit(op, r, outcome, m) ==
    /\ cache' = m.cache
    /\ reqs' = m.reqs
    /\ svc' = m.svc
    /\ slast' = SLast(op, r, outcome, m)
    /\ UNCHANGED exceptTiles

\* constructor, then initAsync
InitTiles ==
    /\ cache = NewCache(0)
    /\ reqs = <<>>
    /\ svc = [_lastv |-> Null, lastv |-> Null]
    /\ viewport = [v |-> 0, tiles |-> {"t1"}]
    /\ slast = [op |-> "none", req |-> 0, outcome |-> "", cache |-> cache,
                reqs |-> <<>>, svc |-> svc, viewport |-> viewport,
                emitted |-> 0, redraws |-> 0, logged |-> 0]
    /\ NoCore /\ NoExtract /\ NoLayer /\ NoLoader /\ NoDraw

\* The user moves the map: a new viewport version.
MoveView(tiles) ==
    /\ viewport.v < MaxViewV
    /\ viewport' = [v |-> viewport.v + 1, tiles |-> tiles]
    /\ slast' = SLast("move", 0, "", TileMachine)
    /\ UNCHANGED <<cache, reqs, svc, exceptTiles>>

LoadTiles ==
    /\ Len(loadTiles(TileMachine, viewport).reqs) <= MaxReqs
    /\ SCommit("loadTiles", 0, "", loadTiles(TileMachine, viewport))
    /\ UNCHANGED viewport

ResetAsync ==
    /\ cache.gen < MaxResets
    /\ SCommit("resetAsync", 0, "", resetAsync(TileMachine))
    /\ UNCHANGED viewport

Complete(r, outcome) ==
    /\ reqs[r].state = "pending"
    /\ SCommit("complete", r, outcome, complete(TileMachine, r, outcome))
    /\ UNCHANGED viewport

NextTiles ==
    \/ \E tiles \in Views : MoveView(tiles)
    \/ LoadTiles
    \/ ResetAsync
    \/ \E r \in DOMAIN reqs, outcome \in Outcomes : Complete(r, outcome)

SpecTiles == InitTiles /\ [][NextTiles]_vars

\* Fetches settle: while one is pending, the network answers, fails or times
\* out for one of them.
FetchesSettle ==
    WF_vars(\E r \in DOMAIN reqs, outcome \in Outcomes : Complete(r, outcome))

SpecTilesFair == SpecTiles /\ FetchesSettle

\* ========================================================= operationExtract
\* The entities of context.graph() that a selection can name: "m" is in no
\* graph; "p" is a tagged point without parent way; "v" a tagged vertex; "u"
\* a vertex without interesting tags; "w" a tagged line whose preset allows
\* points; "x" a tagged area whose preset does not.
XIds == {"m", "p", "v", "u", "w", "x"}
XEntity(exists, type, interesting, parents, closed, presetPoint) ==
    [exists |-> exists, type |-> type, interesting |-> interesting,
     parents |-> parents, closed |-> closed, presetPoint |-> presetPoint]
XGraph ==
    [id \in XIds |->
        CASE id = "m" -> XEntity(FALSE, "", FALSE, 0, FALSE, FALSE)
          [] id = "p" -> XEntity(TRUE, "node", TRUE, 0, FALSE, TRUE)
          [] id = "v" -> XEntity(TRUE, "node", TRUE, 1, FALSE, TRUE)
          [] id = "u" -> XEntity(TRUE, "node", FALSE, 1, FALSE, TRUE)
          [] id = "w" -> XEntity(TRUE, "way", TRUE, 0, FALSE, TRUE)
          [] id = "x" -> XEntity(TRUE, "way", TRUE, 0, TRUE, FALSE)]

\* graph.geometry(id); a total function, nothing for an id not in the graph
geometry(g, id) ==
    LET e == g[id]
    IN IF ~e.exists THEN "none"
       ELSE IF e.type = "node" THEN (IF e.parents > 0 THEN "vertex" ELSE "point")
       ELSE IF e.closed THEN "area" ELSE "line"

\* The callback of selectedIDs.map: the id an actionExtract is made for, or
\* nothing; threw when a method is called on a missing entity.
actionFor(g, id) ==
    LET entity == g[id]
    IN IF ~entity.exists THEN [action |-> None, threw |-> FALSE]
       ELSE IF ~entity.interesting THEN [action |-> None, threw |-> FALSE]
       ELSE IF entity.type = "node" /\ entity.parents = 0
            THEN [action |-> None, threw |-> FALSE]
       ELSE IF geometry(g, id) \in {"area", "line"} /\ ~entity.presetPoint
            THEN [action |-> None, threw |-> FALSE]
       ELSE [action |-> Some(id), threw |-> FALSE]

\* _actions: selectedIDs.map(...).filter(Boolean)
RECURSIVE extractActions(_, _)
extractActions(g, ids) ==
    IF ids = <<>> THEN <<>>
    ELSE actionFor(g, Head(ids)).action \o extractActions(g, Tail(ids))

\* An available() that asks for some action only.
availableAny(actions, selectedIDs) == Len(actions) # 0

\* operation.available(), as a truth value
available(actions, selectedIDs) ==
    Len(actions) # 0 /\ Len(selectedIDs) = Len(actions)

\* _extent.area(): the extent of one node has none
extentHasArea(g, actions) ==
    \/ \E i \in DOMAIN actions : g[actions[i]].type = "way"
    \/ Cardinality({actions[i] : i \in DOMAIN actions}) > 1

\* operation.disabled(): a reason code, or "false"
disabled(g, actions, selectedIDs, hidden, outside) ==
    IF \E i \in DOMAIN selectedIDs :
          geometry(g, selectedIDs[i]) = "vertex" /\ selectedIDs[i] \in hidden
    THEN "connected_to_hidden"
    ELSE IF actions # <<>> /\ extentHasArea(g, actions) /\ outside
    THEN "too_large"
    ELSE "false"

Selections == UNION {[1..n -> XIds] : n \in 0..MaxSelected}

InitExtract ==
    /\ extract = [built |-> FALSE, selectedIDs |-> <<>>, actions |-> <<>>,
                  threw |-> FALSE, available |-> FALSE, disabled |-> "false",
                  hidden |-> {}, outside |-> FALSE]
    /\ NoCore /\ NoTiles /\ NoLayer /\ NoLoader /\ NoDraw

\* operationExtract(context, selectedIDs), then available() and disabled();
\* hidden: the ids with hidden connections; outside: less than 80% of the
\* extent lies in the map's extent.
OperationExtract(selectedIDs, hidden, outside) ==
    /\ ~extract.built
    /\ LET actions == extractActions(XGraph, selectedIDs)
       IN extract' = [built |-> TRUE, selectedIDs |-> selectedIDs,
                      actions |-> actions,
                      threw |-> \E i \in DOMAIN selectedIDs :
                                   actionFor(XGraph, selectedIDs[i]).threw,
                      available |-> available(actions, selectedIDs),
                      disabled |-> disabled(XGraph, actions, selectedIDs,
                                            hidden, outside),
                      hidden |-> hidden, outside |-> outside]
    /\ UNCHANGED exceptExtract

NextExtract ==
    \E selectedIDs \in Selections, hidden \in {{}, {"v"}, {"u", "m"}},
       outside \in BOOLEAN :
        OperationExtract(selectedIDs, hidden, outside)

SpecExtract == InitExtract /\ [][NextExtract]_vars

\* ================================== PixiLayerOsmNotes, PixiLayerKartaPhotos
\* Service objects; NoService stands for services.osm being unset.
ServiceObjs == {"A", "B"}
NoService == "none"
Callers == {"render", "renderMarkers", "supported"}

\* getService(): binds the layer to services.osm and registers the redraw
\* handler, or lets go of a service that is gone; returns this._service.
getService(l) ==
    IF l.osm # NoService /\ l.service = NoService
    THEN [l EXCEPT !.service = l.osm, !.handlers[l.osm] = @ + 1, !.ret = l.osm]
    ELSE IF l.osm = NoService /\ l.service # NoService
    THEN [l EXCEPT !.service = NoService, !.ret = NoService]
    ELSE [l EXCEPT !.ret = l.service]

\* constructor: this._service = null; this.getService()
NewLayer(osm) ==
    getService([osm |-> osm, service |-> NoService,
                handlers |-> [o \in ServiceObjs |-> 0],
                ret |-> NoService, op |-> "constructor", toggles |-> 0])

InitLayer ==
    /\ \E osm \in ServiceObjs \cup {NoService} : layer = NewLayer(osm)
    /\ NoCore /\ NoTiles /\ NoExtract /\ NoLoader /\ NoDraw

\* The service becomes unavailable, available again, or is replaced.
SetService(osm) ==
    /\ layer.toggles < MaxToggles
    /\ osm # layer.osm
    /\ layer' = [layer EXCEPT !.osm = osm, !.op = "services", !.toggles = @ + 1]
    /\ UNCHANGED exceptLayer

GetService(caller) ==
    /\ layer' = [getService(layer) EXCEPT !.op = caller]
    /\ UNCHANGED exceptLayer

NextLayer ==
    \/ \E osm \in ServiceObjs \cup {NoService} : SetService(osm)
    \/ \E caller \in Callers : GetService(caller)

SpecLayer == InitLayer /\ [][NextLayer]_vars

\* ========================================================= DataLoaderSystem
\* fileIDs a caller may ask for: two of the file map, one unknown, and one
\* that names a property every plain object inherits.
FileIDs == {"imagery", "intro_graph", "unknown", "toString"}
FileMap == [f \in {"imagery", "intro_graph"} |->
               IF f = "imagery" THEN "data/imagery.min.json"
               ELSE "data/intro_graph.min.json"]
Urls == {FileMap[f] : f \in DOMAIN FileMap}
\* properties of Object.prototype, which {} inherits
InheritedKeys == {"toString"}
Undefined == "undefined"
\* the parsed result of the n-th fetch; the mock data of a test run
Json == <<"json1", "json2", "json3", "json4", "json5">>
Mock == "mock"
Inherited == "inherited"

\* this._cachedData[fileID]: an own property, an inherited one, or undefined
cachedData(c, fileID) ==
    IF c[fileID] # Undefined THEN c[fileID]
    ELSE IF fileID \in InheritedKeys THEN Inherited
    ELSE Undefined

\* How a fetch can end: parsed data, a parsed result that is falsy, 204/205,
\* a response that is not ok, a network error.
FetchOutcomes == {"data", "falsy", "nocontent", "badstatus", "error"}

LoaderMachine == [loader |-> loader, fetches |-> fetches]

Resolved(x) == [kind |-> "resolved", value |-> x, fetch |-> 0]
Rejected == [kind |-> "rejected", value |-> Undefined, fetch |-> 0]
Pending(f) == [kind |-> "pending", value |-> Undefined, fetch |-> f]

\* Variant: get starts a fetch without looking at _inflight.
getNoDedupe(m, fileID) ==
    IF cachedData(m.loader.cached, fileID) # Undefined
    THEN [m |-> m, ret |-> Resolved(cachedData(m.loader.cached, fileID))]
    ELSE IF fileID \notin DOMAIN FileMap THEN [m |-> m, ret |-> Rejected]
    ELSE [m |-> [m EXCEPT !.fetches = Append(@, [url |-> FileMap[fileID],
                                                 fileID |-> fileID,
                                                 state |-> "pending"]),
                          !.loader.inflight[FileMap[fileID]] = Len(m.fetches) + 1],
          ret |-> Pending(Len(m.fetches) + 1)]

\* Variant: get fetches whether or not the file is cached.
getNoCache(m, fileID) ==
    IF fileID \notin DOMAIN FileMap THEN [m |-> m, ret |-> Rejected]
    ELSE LET url == FileMap[fileID]
         IN IF m.loader.inflight[url] # 0
            THEN [m |-> m, ret |-> Pending(m.loader.inflight[url])]
            ELSE [m |-> [m EXCEPT !.fetches = Append(@, [url |-> url, fileID |-> fileID,
                                                         state |-> "pending"]),
                                  !.loader.inflight[url] = Len(m.fetches) + 1],
                  ret |-> Pending(Len(m.fetches) + 1)]

\* get(fileID)
get(m, fileID) ==
    IF cachedData(m.loader.cached, fileID) # Undefined
    THEN [m |-> m, ret |-> Resolved(cachedData(m.loader.cached, fileID))]
    ELSE IF fileID \notin DOMAIN FileMap THEN [m |-> m, ret |-> Rejected]
    ELSE LET url == FileMap[fileID]
         IN IF m.loader.inflight[url] # 0
            THEN [m |-> m, ret |-> Pending(m.loader.inflight[url])]
            ELSE [m |-> [m EXCEPT !.fetches = Append(@, [url |-> url, fileID |-> fileID,
                                                         state |-> "pending"]),
                                  !.loader.inflight[url] = Len(m.fetches) + 1],
                  ret |-> Pending(Len(m.fetches) + 1)]

\* Variant: a chain without its .catch: a failed fetch keeps its entry.
settleNoCatch(m, f, outcome) ==
    LET q == m.fetches[f]
    IN IF outcome = "data"
       THEN [m EXCEPT !.loader.inflight[q.url] = 0,
                      !.loader.cached[q.fileID] = Json[f],
                      !.fetches[f].state = "resolved"]
       ELSE [m EXCEPT !.fetches[f].state = "rejected"]

\* The .then / .then / .catch chain of a fetch that settles.
settle(m, f, outcome) ==
    LET q == m.fetches[f]
        m1 == [m EXCEPT !.loader.inflight[q.url] = 0]
    IN IF outcome = "data"
       THEN [m1 EXCEPT !.loader.cached[q.fileID] = Json[f], !.fetches[f].state = "resolved"]
       ELSE [m1 EXCEPT !.fetches[f].state = "rejected"]

LLast(op, fileID, f, outcome, ret) ==
    [op |-> op, fileID |-> fileID, fetch |-> f, outcome |-> outcome, ret |-> ret,
     loader |-> loader, fetches |-> fetches]

LCommit(m, rec) ==
    /\ loader' = m.loader
    /\ fetches' = m.fetches
    /\ llast' = rec
    /\ UNCHANGED exceptLoader

\* constructor; under mocha the cache starts with mock data
InitLoader ==
    /\ \E mocha \in BOOLEAN :
          loader = [cached |-> [f \in FileIDs |->
                                   IF mocha /\ f = "imagery" THEN Mock ELSE Undefined],
                    inflight |-> [u \in Urls |-> 0]]
    /\ fetches = <<>>
    /\ llast = [op |-> "none", fileID |-> "", fetch |-> 0, outcome |-> "",
                ret |-> Rejected, loader |-> loader, fetches |-> <<>>]
    /\ NoCore /\ NoTiles /\ NoExtract /\ NoLayer /\ NoDraw

Get(fileID) ==
    /\ Len(get(LoaderMachine, fileID).m.fetches) <= MaxFetches
    /\ LCommit(get(LoaderMachine, fileID).m,
               LLast("get", fileID, 0, "", get(LoaderMachine, fileID).ret))

Settle(f, outcome) ==
    /\ fetches[f].state = "pending"
    /\ LCommit(settle(LoaderMachine, f, outcome),
               LLast("settle", fetches[f].fileID, f, outcome, Rejected))

NextLoader ==
    \/ \E fileID \in FileIDs : Get(fileID)
    \/ \E f \in DOMAIN fetches, outcome \in FetchOutcomes : Settle(f, outcome)

SpecLoader == InitLoader /\ [][NextLoader]_vars

\* Fetches settle: while one is pending, the network answers or fails for
\* one of them.
LoaderFetchesSettle ==
    WF_vars(\E f \in DOMAIN fetches, outcome \in FetchOutcomes : Settle(f, outcome))

SpecLoaderFair == SpecLoader /\ LoaderFetchesSettle

\* ========================================================== behaviorDrawWay
\* The way being drawn ("w"), its nodes, an unrelated way "v" with the edge
\* (b, c), and the draw nodes osmNode may create.
DIds == {"w", "v", "a", "b", "c", "d1", "d2"}
wayID == "w"
DrawNodeIds == <<"d1", "d2">>
DrawLocs == {1}
ClickNodes == {"a", "b"}

DNode(loc) == [kind |-> "entity", ver |-> loc, nodes |-> <<>>]
DWay(nodes) == [kind |-> "entity", ver |-> 0, nodes |-> nodes]
NoDrawLayer == [id \in DIds |-> AbsentEntry]

\* way.addNode(id, index): at the index, at the end when it is undefined;
\* way.removeNode(id): every occurrence; way.isDegenerate() of a line
wayAddNode(nodes, id, index) ==
    IF index = Null THEN Append(nodes, id)
    ELSE SubSeq(nodes, 1, index) \o <<id>> \o SubSeq(nodes, index + 1, Len(nodes))

wayRemoveNode(nodes, id) == SelectSeq(nodes, LAMBDA n : n # id)

isDegenerate(nodes) == Cardinality({nodes[i] : i \in DOMAIN nodes}) < 2

\* The actions of the behaviour, as the replace / remove calls they chain
\* on the graph g they are given.
actionNoop == <<>>

actionMoveNode(id, loc) == <<[op |-> "replace", id |-> id, entry |-> DNode(loc)]>>

actionAddDrawNode(g, d, loc, index) ==
    <<[op |-> "replace", id |-> d, entry |-> DNode(loc)],
      [op |-> "replace", id |-> wayID,
       entry |-> DWay(wayAddNode(graphEntity(g, wayID).nodes, d, index))]>>

\* Variant: the draw node is removed while the way still lists it.
actionDeleteDrawNodeAttached(g, d) ==
    <<[op |-> "remove", id |-> d, entry |-> Tombstone]>>

actionDeleteDrawNode(g, d) ==
    <<[op |-> "replace", id |-> wayID,
       entry |-> DWay(wayRemoveNode(graphEntity(g, wayID).nodes, d))],
      [op |-> "remove", id |-> d, entry |-> Tombstone]>>

actionReplaceDrawNode(g, d, node, index) ==
    LET detached == wayRemoveNode(graphEntity(g, wayID).nodes, d)
    IN <<[op |-> "replace", id |-> wayID, entry |-> DWay(detached)],
         [op |-> "remove", id |-> d, entry |-> Tombstone],
         [op |-> "replace", id |-> wayID,
          entry |-> DWay(wayAddNode(detached, node, index))]>>

\* actionAddMidpoint({loc, edge: (b, c) of "v"}, _drawNode)
actionAddMidpoint(g, d, loc) ==
    <<[op |-> "replace", id |-> d, entry |-> DNode(loc)],
      [op |-> "replace", id |-> "v",
       entry |-> DWay(wayAddNode(graphEntity(g, "v").nodes, d, 1))]>>

annotation == Some("draw")

NoOff == [ran |-> FALSE, resolved |-> FALSE, stack |-> <<>>, index |-> 0,
          tempIndex |-> 0, tempGraph |-> 0]
NoPair == [ran |-> FALSE, atStart |-> FALSE, entry |-> <<>>, entryIndex |-> 0,
           before |-> <<>>, beforeIndex |-> 0, after |-> <<>>, afterIndex |-> 0]

\* The behaviour and the history threaded through a handler; offs, pair and
\* cancelled record what drawWay.off, undone and drawWay.cancel did in it.
DMachine ==
    [h |-> HMachine, b |-> draw, offs |-> NoOff, pair |-> NoPair, cancelled |-> FALSE]

graphNow(h) == h.graphs[currentGraph(h)]

createDrawNode(m, loc) ==
    LET d == m.b.created + 1
        h1 == pauseChangeDispatch(m.h)
        h2 == replace(h1, actionAddDrawNode(graphNow(h1), DrawNodeIds[d], loc,
                                            m.b.nodeIndex), annotation)
    IN [m EXCEPT !.h = resumeChangeDispatch(h2), !.b.drawNode = d, !.b.created = d]

removeDrawNode(m) ==
    LET h1 == pauseChangeDispatch(m.h)
        h2 == replace(h1, actionDeleteDrawNode(graphNow(h1), DrawNodeIds[m.b.drawNode]),
                      annotation)
    IN [m EXCEPT !.h = resumeChangeDispatch(h2), !.b.drawNode = 0]

moveDrawNode(m, loc) ==
    [m EXCEPT !.h = replace(m.h, actionMoveNode(DrawNodeIds[m.b.drawNode], loc),
                            annotation)]

move(m, loc) ==
    moveDrawNode(IF m.b.drawNode = 0 THEN createDrawNode(m, loc) ELSE m, loc)

\* while (context.graph() !== startGraph) context.pop(): pop does nothing at
\* the start of the stack, so the loop never ends when startGraph is not below.
RECURSIVE popToStart(_, _)
popToStart(h, start) ==
    IF currentGraph(h) = start \/ h.index <= 1 THEN h
    ELSE popToStart(pop(h, 1), start)

\* Variant: a single pop.
resetOnePop(m) ==
    LET h1 == IF currentGraph(m.h) = m.b.startGraph THEN m.h ELSE pop(m.h, 1)
    IN [m EXCEPT !.h = h1]

resetToStartGraph(m) ==
    LET h1 == popToStart(m.h, m.b.startGraph)
    IN [m EXCEPT !.h = h1,
                 !.b.phase = IF currentGraph(h1) = m.b.startGraph THEN @ ELSE "hung"]

\* drawWay.off
off(m) ==
    LET m1 == IF m.b.resolved THEN m
              ELSE resetToStartGraph([m EXCEPT !.h = pauseChangeDispatch(@)])
    IN IF m1.b.phase = "hung" THEN m1
       ELSE LET h2 == IF m.b.resolved THEN m1.h ELSE resumeChangeDispatch(m1.h)
            IN [m1 EXCEPT !.h = h2, !.b.drawNode = 0, !.b.phase = "off",
                          !.offs = [ran |-> TRUE, resolved |-> m.b.resolved,
                                    stack |-> h2.stack, index |-> h2.index,
                                    tempIndex |-> m.b.tempIndex,
                                    tempGraph |-> m.b.tempGraph]]

\* drawWay(surface); the mode has set _nodeIndex before
install(m) ==
    LET way == graphEntity(graphNow(m.h), wayID)
        b1 == [m.b EXCEPT !.drawNode = 0, !.resolved = FALSE]
        h3 == resumeChangeDispatch(perform(pauseChangeDispatch(m.h), actionNoop,
                                           annotation))
    IN IF way.kind # "entity" THEN [m EXCEPT !.b = [b1 EXCEPT !.phase = "threw"]]
       ELSE [m EXCEPT !.h = h3,
                      !.b = [b1 EXCEPT !.headNodeID =
                                           IF m.b.nodeIndex = Null
                                           THEN way.nodes[Len(way.nodes)]
                                           ELSE way.nodes[m.b.nodeIndex + 1],
                                       !.pointerHasMoved = FALSE,
                                       !.phase = "on",
                                       !.tempIndex = h3.index,
                                       !.tempGraph = currentGraph(h3)]]

\* context.enter(next): the current mode exits (drawWay.off), then the next
\* mode enters; entering the drawing mode installs the behaviour again.
enter(m, next) ==
    LET m1 == off(m)
    IN IF m1.b.phase = "hung" \/ next # "draw" THEN m1 ELSE install(m1)

doAdd(m, kind, loc, node) ==
    LET d == DrawNodeIds[m.b.drawNode]
    IN CASE kind = "add" -> m
         [] kind = "addWay" ->
              [m EXCEPT !.h = replace(@, actionAddMidpoint(graphNow(m.h), d, loc),
                                      annotation)]
         [] kind = "addNode" ->
              [m EXCEPT !.h = replace(@, actionReplaceDrawNode(graphNow(m.h), d, node,
                                                               m.b.nodeIndex),
                                      annotation)]

attemptAdd(m, kind, loc, node, nope) ==
    LET m1 == IF m.b.drawNode # 0 THEN moveDrawNode(m, loc) ELSE createDrawNode(m, loc)
    IN IF nope
       THEN IF ~m1.b.pointerHasMoved THEN removeDrawNode(m1) ELSE m1
       ELSE LET m2 == doAdd([m1 EXCEPT !.h = pauseChangeDispatch(@)], kind, loc, node)
            IN enter([m2 EXCEPT !.b.resolved = TRUE, !.h = resumeChangeDispatch(@)],
                     "draw")

\* Variant: cancel returns without resuming change dispatch.
cancelNoResume(m) ==
    LET m1 == resetToStartGraph([m EXCEPT !.h = pauseChangeDispatch(@)])
    IN IF m1.b.phase = "hung" THEN m1
       ELSE [enter(m1, "browse") EXCEPT !.cancelled = TRUE]

\* drawWay.cancel
cancel(m) ==
    LET m1 == resetToStartGraph([m EXCEPT !.h = pauseChangeDispatch(@)])
    IN IF m1.b.phase = "hung" THEN m1
       ELSE [enter([m1 EXCEPT !.h = resumeChangeDispatch(@)], "browse")
                EXCEPT !.cancelled = TRUE]

\* drawWay.finish; the ways drawn here are open, for which
\* isInvalidGeometry(false) is false
finish(m) ==
    LET m1 == [m EXCEPT !.h = resumeChangeDispatch(pop(pauseChangeDispatch(@), 1)),
                        !.b.resolved = TRUE]
        way == graphEntity(graphNow(m1.h), wayID)
    IN IF way.kind # "entity" \/ isDegenerate(way.nodes) THEN cancel(m1)
       ELSE enter(m1, "select")

addNode(m, node, nope) ==
    IF node = m.b.headNodeID THEN finish(m)
    ELSE attemptAdd(m, "addNode", 0, node, nope)

\* context.undo, as the handler relies on it: back to the nearest state that
\* has an annotation, or to the start of the stack.
contextUndo(h) == change(backToAnnotated(h))

\* Variant: the handler without the blank edit that clears the redo stack.
undoneKeepRedo(m) ==
    LET h1 == pauseChangeDispatch(m.h)
        atStart == currentGraph(h1) = m.b.startGraph
        h2 == IF atStart THEN h1 ELSE pop(h1, 1)
    IN enter([m EXCEPT !.h = resumeChangeDispatch(h2), !.b.resolved = TRUE,
                       !.pair = [ran |-> TRUE, atStart |-> atStart,
                                 entry |-> h1.stack, entryIndex |-> h1.index,
                                 before |-> h2.stack, beforeIndex |-> h2.index,
                                 after |-> h2.stack, afterIndex |-> h2.index]],
             IF atStart THEN "select" ELSE "draw")

\* Variant: the handler pops two states where it pops one.
undonePopsTwice(m) ==
    LET h1 == pauseChangeDispatch(m.h)
        atStart == currentGraph(h1) = m.b.startGraph
        h2 == IF atStart THEN h1 ELSE pop(h1, 2)
        h4 == pop(perform(h2, actionNoop, None), 1)
    IN enter([m EXCEPT !.h = resumeChangeDispatch(h4), !.b.resolved = TRUE,
                       !.pair = [ran |-> TRUE, atStart |-> atStart,
                                 entry |-> h1.stack, entryIndex |-> h1.index,
                                 before |-> h2.stack, beforeIndex |-> h2.index,
                                 after |-> h4.stack, afterIndex |-> h4.index]],
             IF atStart THEN "select" ELSE "draw")

\* the 'undone' handler
undone(m) ==
    LET h1 == pauseChangeDispatch(m.h)
        atStart == currentGraph(h1) = m.b.startGraph
        h2 == IF atStart THEN h1 ELSE pop(h1, 1)
        h4 == pop(perform(h2, actionNoop, None), 1)
    IN enter([m EXCEPT !.h = resumeChangeDispatch(h4), !.b.resolved = TRUE,
                       !.pair = [ran |-> TRUE, atStart |-> atStart,
                                 entry |-> h1.stack, entryIndex |-> h1.index,
                                 before |-> h2.stack, beforeIndex |-> h2.index,
                                 after |-> h4.stack, afterIndex |-> h4.index]],
             IF atStart THEN "select" ELSE "draw")

DLast(op, m) ==
    [op |-> op, offs |-> m.offs, pair |-> m.pair, cancelled |-> m.cancelled,
     stack |-> hstack, index |-> hindex, drawNode |-> draw.drawNode,
     pauses |-> m.h.pauses, depth |-> m.h.depth, low |-> m.h.low]

DCommit(op, m) ==
    /\ Len(m.h.graphs) <= MaxDrawGraphs
    /\ graphs' = m.h.graphs
    /\ hstack' = m.h.stack
    /\ hindex' = m.h.index
    /\ paused' = m.h.paused
    /\ obs' = m.h.obs
    /\ draw' = m.b
    /\ dlast' = DLast(op, m)
    /\ UNCHANGED <<hlast, evars, tvars, cvars, svars, ovars, yvars, lvars>>

\* Drawing a new way: startGraph is the graph before the way and its first
\* node were added, by an edit without annotation.
StartBase ==
    [id \in DIds |-> IF id \in {"b", "c"} THEN DNode(0)
                     ELSE IF id = "v" THEN DWay(<<"b", "c">>)
                     ELSE AbsentEntry]
StartGraphs ==
    <<[base |-> StartBase, local |-> NoDrawLayer],
      [base |-> StartBase,
       local |-> [NoDrawLayer EXCEPT !["a"] = DNode(0), !["w"] = DWay(<<"a">>)]]>>
StartStack == <<[graph |-> 1, annotation |-> None], [graph |-> 2, annotation |-> None]>>

\* Continuing a way: startGraph is the graph the drawing starts from.
ContinueBase ==
    [id \in DIds |-> IF id \in {"a", "b", "c"} THEN DNode(0)
                     ELSE IF id = "v" THEN DWay(<<"b", "c">>)
                     ELSE IF id = "w" THEN DWay(<<"c", "a">>)
                     ELSE AbsentEntry]
ContinueGraphs ==
    <<[base |-> ContinueBase, local |-> NoDrawLayer],
      [base |-> ContinueBase, local |-> [NoDrawLayer EXCEPT !["a"] = DNode(1)]]>>
ContinueStack ==
    <<[graph |-> 1, annotation |-> None], [graph |-> 2, annotation |-> Some("moved")]>>

NewBehavior(startGraph, nodeIndex) ==
    [phase |-> "new", drawNode |-> 0, created |-> 0, resolved |-> FALSE,
     pointerHasMoved |-> FALSE, startGraph |-> startGraph, nodeIndex |-> nodeIndex,
     headNodeID |-> "", tempIndex |-> 0, tempGraph |-> 0]

InitDraw ==
    /\ \E continuing \in BOOLEAN, nodeIndex \in {Null, 0} :
          /\ graphs = IF continuing THEN ContinueGraphs ELSE StartGraphs
          /\ hstack = IF continuing THEN ContinueStack ELSE StartStack
          /\ draw = NewBehavior(IF continuing THEN 2 ELSE 1, nodeIndex)
    /\ hindex = 2
    /\ paused = None
    /\ obs = 2
    /\ hlast = <<>>
    /\ dlast = [op |-> "none", offs |-> NoOff, pair |-> NoPair, cancelled |-> FALSE,
                stack |-> <<>>, index |-> 0, drawNode |-> 0,
                pauses |-> 0, depth |-> 0, low |-> 0]
    /\ NoEntities /\ NoTree /\ NoCrossing
    /\ NoTiles /\ NoExtract /\ NoLayer /\ NoLoader

CanDraw == draw.phase = "on" /\ (draw.drawNode # 0 \/ draw.created < Len(DrawNodeIds))

Install ==
    /\ draw.phase = "new"
    /\ DCommit("install", install(DMachine))

Move(loc) ==
    /\ CanDraw
    /\ DCommit("move", move([DMachine EXCEPT !.b.pointerHasMoved = TRUE], loc))

Down(loc) ==
    /\ CanDraw
    /\ DCommit("down", move(DMachine, loc))

DownCancel ==
    /\ draw.phase = "on"
    /\ DCommit("downcancel",
               IF draw.drawNode # 0 THEN removeDrawNode(DMachine) ELSE DMachine)

Add(loc, nope) ==
    /\ CanDraw
    /\ DCommit("add", attemptAdd(DMachine, "add", loc, "", nope))

AddWay(loc, nope) ==
    /\ CanDraw
    /\ DCommit("addWay", attemptAdd(DMachine, "addWay", loc, "", nope))

AddNode(node, nope) ==
    /\ CanDraw
    /\ DCommit("addNode", addNode(DMachine, node, nope))

UndoEvent ==
    /\ draw.phase = "on"
    /\ DCommit("undone", undone([DMachine EXCEPT !.h = contextUndo(@)]))

Finish ==
    /\ draw.phase = "on"
    /\ DCommit("finish", finish(DMachine))

Cancel ==
    /\ draw.phase = "on"
    /\ DCommit("cancel", cancel(DMachine))

Off ==
    /\ draw.phase = "on"
    /\ DCommit("off", off(DMachine))

NextDraw ==
    \/ Install
    \/ \E loc \in DrawLocs : Move(loc)
    \/ \E loc \in DrawLocs : Down(loc)
    \/ DownCancel
    \/ \E loc \in DrawLocs, nope \in BOOLEAN : Add(loc, nope)
    \/ \E loc \in DrawLocs, nope \in BOOLEAN : AddWay(loc, nope)
    \/ \E node \in ClickNodes, nope \in BOOLEAN : AddNode(node, nope)
    \/ UndoEvent
    \/ Finish
    \/ Cancel
    \/ Off

SpecDraw == InitDraw /\ [][NextDraw]_vars

\* ================================================================ claims
Returned == heap[last.ret]
Called(op) == last.op = op /\ ~last.threw

\* log[n] is the latest event of its object: when that object, as it now is,
\* was produced (constructed, or stamped by touch).
IsLatest(n) == \A n2 \in DOMAIN log : n2 > n => log[n2].obj # log[n].obj
Ver(e) == IF e.v = None THEN 0 ELSE e.v[1]

\* C1: update is copy-on-write: after e.update(p) the receiver e has every
\* field (id, type, tags, v, visible) as before the call, and the result is
\* another object.
C1_UpdateCopyOnWrite ==
    Called("update") =>
        /\ heap[last.recv] = last.before
        /\ last.ret \in DOMAIN heap
        /\ last.ret # last.recv

C1_Witness ==
    /\ Called("update")
    /\ "tags" \in last.attrs.set
    /\ Returned.tags # last.before.tags
    /\ last.before.v # None

\* C2 (as claimed): whenever b was produced after a, by create or by update,
\* the version of b is strictly greater than the version of a.
C2_VersionMonotone_Original ==
    \A i, j \in DOMAIN log :
        (i < j /\ IsLatest(i) /\ IsLatest(j)) =>
            Ver(heap[log[j].obj]) > Ver(heap[log[i].obj])

\* C2 (amended): whenever a and b both carry a version stamp (from update or
\* touch) and b was stamped after a, b.v is strictly greater than a.v; an
\* entity from create alone carries no version stamp.
C2_VersionMonotone ==
    \A i, j \in DOMAIN log :
        (IsLatest(i) /\ IsLatest(j)) =>
            LET a == heap[log[i].obj]
                b == heap[log[j].obj]
            IN /\ (log[i].op = "new") => a.v = None
               /\ (i < j /\ log[i].op = "touch" /\ log[j].op = "touch") =>
                      (a.v # None /\ b.v # None /\ b.v[1] > a.v[1])

C2_Witness ==
    \E i, j \in DOMAIN log :
        /\ i < j /\ IsLatest(i) /\ IsLatest(j)
        /\ log[i].op = "touch" /\ log[j].op = "touch"
        /\ log[i].obj > log[j].obj
        /\ heap[log[i].obj].id # heap[log[j].obj].id

\* C3: the version counter is never reused: the values assigned by touch
\* (from update or directly), over all entities, are strictly increasing in
\* the order of the calls.
C3_VersionNeverReused ==
    \A i, j \in DOMAIN log :
        (i < j /\ log[i].op = "touch" /\ log[j].op = "touch") => log[i].v < log[j].v

C3_Witness ==
    \E i, j, n \in DOMAIN log :
        /\ i < j /\ j < n
        /\ log[i].op = "touch" /\ log[j].op = "touch" /\ log[n].op = "touch"
        /\ log[i].obj # log[j].obj
        /\ heap[log[i].obj].type # heap[log[j].obj].type

\* C4 (as claimed): the key of e.update(p) differs from the key of e, whether
\* or not e was updated before.
C4_KeyDetectsUpdate ==
    Called("update") => key(Returned) # key(last.before)

\* C5: mergeTags keeps non-conflicting keys: a key the receiver lacks takes
\* the given value, a key with equal values keeps it, a key absent from the
\* given tags keeps the receiver's value.
C5_MergeNonConflicting ==
    Called("mergeTags") =>
        \A k \in Keys :
            LET t1 == last.before.tags[k]
                t2 == last.arg[k]
                res == Returned.tags[k]
            IN /\ (t2 # None /\ t1 = None) => res = t2
               /\ (t2 # None /\ t1 = t2) => res = t1
               /\ (t2 = None) => res = t1

C5_Witness ==
    /\ Called("mergeTags")
    /\ last.before.tags["building"] = None /\ last.arg["building"] = Str(House)
    /\ last.before.tags["name"] = Str(<<"a">>) /\ last.arg["name"] = None
    /\ last.ret # last.recv

\* C6: a building value 'yes' gives way to a more specific non-empty value
\* from either side.
C6_BuildingYesOverridden ==
    Called("mergeTags") =>
        LET t1 == last.before.tags["building"]
            t2 == last.arg["building"]
            res == Returned.tags["building"]
        IN /\ (t1 = Str(Yes) /\ Truthy(t2) /\ t2 # Str(Yes)) => res = t2
           /\ (t2 = Str(Yes) /\ Truthy(t1) /\ t1 # Str(Yes)) => res = t1

C6_Witness ==
    /\ Called("mergeTags")
    /\ last.before.tags["building"] = Str(House)
    /\ last.arg["building"] = Str(Yes)
    /\ Returned.tags["building"] = Str(House)

\* The building case of C6: one side 'yes', the other side differs.
BuildingYesCase(k, t1, t2) == k = "building" /\ (t1 = Str(Yes) \/ t2 = Str(Yes))

\* C7 (as claimed, read for non-empty values and with the 255 code point cut
\* of C8): every key whose two values are present and differ, other than the
\* building 'yes' case, gets the ';'-joined union of the items of both values.
C7_ConflictsMergedAsUnion ==
    Called("mergeTags") =>
        \A k \in Keys :
            LET t1 == last.before.tags[k]
                t2 == last.arg[k]
            IN (Truthy(t1) /\ Truthy(t2) /\ t1 # t2 /\ ~BuildingYesCase(k, t1, t2)) =>
                   Returned.tags[k] = Some(SubSeq(Union(t1, t2), 1,
                                                  Min(Len(Union(t1, t2)), MaxTagChars)))

\* C8: a union longer than 255 code points is cut to its first 255 code
\* points, a shorter one is kept whole; no union value exceeds 255 code points.
C8_UnionTruncatedTo255CodePoints ==
    Called("mergeTags") =>
        \A k \in Keys \ {"building"} :
            LET t1 == last.before.tags[k]
                t2 == last.arg[k]
                u == Union(t1, t2)
                res == Returned.tags[k]
            IN (Truthy(t1) /\ t2 # None /\ t1 # t2) =>
                   /\ res # None
                   /\ Len(res[1]) <= 255
                   /\ Len(res[1]) = (IF Len(u) > 255 THEN 255 ELSE Len(u))
                   /\ \A n \in 1..Len(res[1]) : res[1][n] = u[n]

C8_Witness ==
    /\ Called("mergeTags")
    /\ last.before.tags["name"] = Str(LongC54)
    /\ last.arg["name"] = Str(LongE)
    /\ Len(Returned.tags["name"][1]) = 185

LocalId(e) ==
    /\ Truthy(e.id)
    /\ StrToNum(Tail(e.id[1])) # None
    /\ StrToNum(Tail(e.id[1]))[1] < 0
    /\ isNew(e) = [threw |-> FALSE, val |-> TRUE]

\* C10 (as claimed): every entity created without an id has a local id.
C10_CreateAssignsId_Original ==
    (Called("create") /\ ~Truthy(last.attrs.id)) => LocalId(Returned)

\* C10 (amended): every entity created with a type and without an id has a
\* local id.
C10_CreateAssignsId ==
    (Called("create") /\ ~Truthy(last.attrs.id) /\ HasType(last.attrs.type)) =>
        LocalId(Returned)

C10_Witness ==
    /\ Called("create")
    /\ ~Truthy(last.attrs.id)
    /\ last.attrs.type = Some("way")
    /\ Returned.id = Some(<<"w", "-", "2">>)

\* C11 (as claimed): an id allocated by create differs from the id of every
\* entity that already exists, caller-supplied local ids included.
C11_AllocatedIdUnique ==
    (Called("create") /\ ~Truthy(last.attrs.id) /\ Returned.id # None) =>
        \A j \in DOMAIN heap : j # last.ret => heap[j].id # Returned.id

\* ------------------------------------------------- Graph and History claims
HDid(ops) == hlast.op \in ops
GraphValue(g) == [id \in GIds |-> graphEntity(g, id)]
CurrentValue(hm) == GraphValue(hm.graphs[currentGraph(hm)])

\* C12: graph snapshot independence: a perform or replace, with every
\* replace / remove its action chains, leaves every existing Graph object as
\* it was, and each new graph g2 = g1.replace(e) answers g2.entity(e.id) with e
\* (with nothing, after a remove).
C12_GraphSnapshotIndependence ==
    HDid({"perform", "replace"}) =>
        /\ Len(graphs) = Len(hlast.graphs) + Len(hlast.steps)
        /\ \A gi \in DOMAIN hlast.graphs :
              /\ graphs[gi] = hlast.graphs[gi]
              /\ \A id \in GIds :
                    graphEntity(graphs[gi], id) = graphEntity(hlast.graphs[gi], id)
        /\ \A j \in 1..Len(hlast.steps) :
              LET g2 == graphs[Len(hlast.graphs) + j]
                  step == hlast.steps[j]
              IN /\ graphEntity(g2, step.id) = step.entry
                 /\ hasEntity(g2, step.id) <=> step.op = "replace"

C12_Witness ==
    /\ HDid({"perform"})
    /\ Len(hlast.steps) = 2
    /\ hasEntity(hlast.graphs[hlast.stack[hlast.index].graph], "n1")
    /\ ~hasEntity(graphs[currentGraph(HMachine)], "n1")
    /\ graphEntity(graphs[1], "n1") = Ent(1)

C14_PerformTruncatesRedoTail ==
    HDid({"perform"}) =>
        /\ hindex = hlast.index + 1
        /\ hindex = Len(hstack)
        /\ SubSeq(hstack, 1, hlast.index) = SubSeq(hlast.stack, 1, hlast.index)
        /\ redo(HMachine) = HMachine

C14_Witness ==
    /\ HDid({"perform"})
    /\ hlast.index + 1 < Len(hlast.stack)
    /\ hlast.index > 1

\* C15: undo at the start and redo at the end of the stack change nothing
\* (stack, cursor, current graph), and the cursor is always within the stack.
C15_HistoryBoundaries ==
    /\ hindex \in 1..Len(hstack)
    /\ (HDid({"undo"}) /\ hlast.index = 1) =>
          (hstack = hlast.stack /\ hindex = hlast.index /\ graphs = hlast.graphs
           /\ currentGraph(HMachine) = hlast.stack[hlast.index].graph)
    /\ (HDid({"redo"}) /\ hlast.index = Len(hlast.stack)) =>
          (hstack = hlast.stack /\ hindex = hlast.index /\ graphs = hlast.graphs
           /\ currentGraph(HMachine) = hlast.stack[hlast.index].graph)

C15_Witness ==
    /\ HDid({"undo"})
    /\ hlast.index = 1
    /\ Len(hstack) > 2

\* C16: change dispatch transaction: inside a pause / resume scope no call
\* notifies the observers, who keep seeing the graph the scope started from;
\* resume notifies once, of the graph then current; outside a scope the
\* observers have seen the current graph.
C16_ChangeDispatchTransaction ==
    /\ paused # None => obs = paused[1]
    /\ paused = None => obs = currentGraph(HMachine)
    /\ (hlast.paused # None /\ HDid({"perform", "replace", "pop", "undo", "redo"})) =>
          (hlast.fired = 0 /\ obs = hlast.obs)
    /\ HDid({"resume"}) => (hlast.fired = 1 /\ obs = currentGraph(HMachine))

C16_Witness ==
    /\ HDid({"resume"})
    /\ hlast.obs = 1
    /\ hlast.paused = Some(1)
    /\ hlast.index >= 3
    /\ obs # hlast.obs

\* --------------------------------------------------------------- Tree claims
TDid(op) == tlast.op = op
EntriesOf(index, id) == {e \in index : e.id = id}

\* Points the last rebase was given that had moved since they were indexed.
MovedAndRebased ==
    {id \in tlast.ids \cap TNodes :
        /\ tgraph[id].present
        /\ \E e \in EntriesOf(tlast.index, id) : e.lo # tgraph[id].loc}

\* C17: tree rebase correctness: after a rebase, a moved entity the rebase
\* was given is returned by every query whose box contains its new location
\* and by no query whose box contains its old location only, and every
\* entity of the graph has exactly one index entry, that of its current box.
C17_TreeRebaseCorrect ==
    TDid("rebase") =>
        /\ \A id \in MovedAndRebased : \A box \in Boxes :
              LET new == tgraph[id].loc
                  hasNew == box.lo <= new /\ new <= box.hi
              IN /\ hasNew => id \in query(tindex, box)
                 /\ ~hasNew => id \notin query(tindex, box)
        /\ \A id \in TIds : tgraph[id].present =>
              EntriesOf(tindex, id) = {TEntry(tgraph, id)}

C17_Witness ==
    /\ TDid("rebase")
    /\ "n1" \in MovedAndRebased
    /\ tgraph["w1"].present
    /\ EntriesOf(tlast.index, "w1") # EntriesOf(tindex, "w1")
    /\ "n1" \in query(tindex, [lo |-> 2, hi |-> 2])
    /\ "n1" \in query(tlast.index, [lo |-> 0, hi |-> 0])

\* ----------------------------------------------------- crossing-tags claims
CEntity(id) == cgraph[CHOOSE i \in DOMAIN cgraph : cgraph[i].id = id]
HasFixture == cgraph # <<>>
LineTags == CEntity("w-1").tags
RoadTags == CEntity("w-2").tags
SharedNode == CEntity("n-5")
Silent(tags) == tags.crossing = "" /\ tags.markings = ""
TaggedStates == {"marked", "unmarked", "informal"}

\* verifySingleCrossingIssue
SingleCrossingIssue ==
    /\ Len(issues) = 1
    /\ issues[1].type = "ambiguous_crossing_tags"
    /\ issues[1].severity = "warning"
    /\ Len(issues[1].entityIds) = 2
    /\ issues[1].loc = SharedNode.loc

\* C18: silent case: validate() over an empty graph, and over two lines
\* sharing one node where no line and not the node carries a crossing tag,
\* yields no issue.
C18_SilentNoIssue ==
    (validated /\ (HasFixture =>
                      Silent(LineTags) /\ Silent(RoadTags) /\ Silent(SharedNode.tags)))
        => issues = <<>>

C18_Witness ==
    /\ validated
    /\ HasFixture
    /\ LineTags = NoTags /\ RoadTags = NoTags /\ SharedNode.tags = NoTags
    /\ issues = <<>>

C18_WitnessEmpty ==
    validated /\ ~HasFixture /\ issues = <<>>

\* The line and the node both state marked, unmarked or informal and differ,
\* or are both marked with two different sub-styles.
Conflict(line, node) ==
    /\ markingState(line) \in TaggedStates
    /\ markingState(node) \in TaggedStates
    /\ \/ markingState(line) # markingState(node)
       \/ /\ markingState(line) = "marked"
          /\ markingStyle(line) # "" /\ markingStyle(node) # ""
          /\ markingStyle(line) # markingStyle(node)

\* C19: conflict case: when the crossing line and the shared node disagree on
\* marked / unmarked / informal, or are both marked with different sub-styles,
\* validate() over all seven entities yields exactly one issue, an
\* 'ambiguous_crossing_tags' warning with two entityIds at the shared node.
C19_ConflictSingleIssue ==
    (validated /\ HasFixture /\ Conflict(LineTags, SharedNode.tags))
        => SingleCrossingIssue

\* 'flags marked lines and nodes that have a different crossing marking type'
C19_Witness ==
    /\ validated
    /\ HasFixture
    /\ LineTags = [NoTags EXCEPT !.highway = "footway", !.footway = "crossing",
                                 !.crossing = "marked", !.markings = "zebra"]
    /\ RoadTags = [NoTags EXCEPT !.highway = "residential"]
    /\ SharedNode.tags = [NoTags EXCEPT !.markings = "lines"]
    /\ SingleCrossingIssue

\* One side states marked or informal, the other carries no marking-state tag.
Asymmetric(a, b) ==
    markingState(a) \in {"marked", "informal"} /\ Silent(b)

\* C20: asymmetry: one side marked or informal against a side with no
\* marking-state tag raises exactly one warning; two silent sides raise none.
C20_AsymmetrySingleIssue ==
    (validated /\ HasFixture) =>
        /\ (Asymmetric(LineTags, SharedNode.tags)
            \/ Asymmetric(SharedNode.tags, LineTags)) => SingleCrossingIssue
        /\ (Silent(LineTags) /\ Silent(SharedNode.tags)) => issues = <<>>

\* 'flags a marked line with potential unmarked crossing nodes'
C20_Witness ==
    /\ validated
    /\ HasFixture
    /\ LineTags = [NoTags EXCEPT !.highway = "footway", !.footway = "crossing",
                                 !.crossing = "marked"]
    /\ RoadTags = [NoTags EXCEPT !.highway = "residential"]
    /\ SharedNode.tags = NoTags
    /\ SingleCrossingIssue

\* The flagged fixtures of the test, as (w1tags, nodeTags).
Footway(c, k) ==
    [NoTags EXCEPT !.highway = "footway", !.footway = "crossing",
                   !.crossing = c, !.markings = k]
FlaggedFixtures ==
    {<<Footway("unmarked", ""), [NoTags EXCEPT !.markings = "yes"]>>,
     <<Footway("unmarked", ""), [NoTags EXCEPT !.MARKING_TAG = "zebra"]>>,
     <<Footway("marked", ""), [NoTags EXCEPT !.markings = "no"]>>,
     <<Footway("marked", "zebra"), [NoTags EXCEPT !.markings = "lines"]>>,
     <<Footway("informal", ""), [NoTags EXCEPT !.markings = "lines"]>>,
     <<Footway("marked", ""),
       [NoTags EXCEPT !.markings = "ladder", !.crossing = "informal"]>>,
     <<Footway("marked", ""), NoTags>>}

\* The expectations of the test hold of the modelled validator.
TestExpectations ==
    (validated /\ HasFixture /\ <<LineTags, SharedNode.tags>> \in FlaggedFixtures
     /\ RoadTags.highway = "residential")
        => SingleCrossingIssue

\* --------------------------------------------------------- issue identity
KeysOf(iss) == {iss[i].key : i \in DOMAIN iss}
Reverse(seq) == [i \in DOMAIN seq |-> seq[Len(seq) + 1 - i]]
ValidationOrders ==
    {<<1, 2, 3, 4, 5, 6, 7>>, <<7, 6, 5, 4, 3, 2, 1>>, <<6, 7, 5, 1, 2, 3, 4>>,
     <<5, 6, 7, 4, 3, 2, 1>>, <<7, 1, 6, 2, 5, 3, 4>>, <<6, 5, 7>>, <<5>>}
Problems == IF HasFixture /\ ambiguous(lineSide(<<CEntity("w-1"), CEntity("w-2")>>),
                                         SharedNode.tags)
            THEN 1 ELSE 0

SDid(op) == slast.op = op
StoredBefore == <<slast.cache.loaded, slast.cache.images, slast.cache.rtree>>
StoredNow == <<cache.loaded, cache.images, cache.rtree>>

\* C22: an aborted fetch is a no-op: the completion of a request that was
\* aborted, by loadTiles or by resetAsync, adds nothing to loaded, images and
\* rtree of the cache of that moment, emits no 'loadedData' and requests no
\* redraw.
C22_AbortedFetchNoOp ==
    /\ (SDid("complete") /\ slast.reqs[slast.req].aborted) =>
          /\ StoredNow = StoredBefore
          /\ cache.gen = slast.cache.gen
          /\ slast.emitted = 0
          /\ slast.redraws = 0
          /\ reqs[slast.req].state = "abort"
    /\ \A r \in DOMAIN reqs : reqs[r].state = "ok" => ~reqs[r].aborted

\* One request aborted by resetAsync and one aborted by loadTiles have both
\* completed, the last of them with a response that carried data.
C22_Witness ==
    /\ SDid("complete")
    /\ slast.outcome = "ok"
    /\ slast.reqs[slast.req].aborted
    /\ \E r \in DOMAIN reqs : reqs[r].state = "abort" /\ reqs[r].gen < cache.gen
    /\ \E r \in DOMAIN reqs : reqs[r].state = "abort" /\ reqs[r].gen = cache.gen

FailedFetch ==
    /\ SDid("complete")
    /\ ~slast.reqs[slast.req].aborted
    /\ slast.outcome \in {"error", "badstatus"}

C23_FailureCaught ==
    FailedFetch =>
        /\ StoredNow = StoredBefore
        /\ slast.emitted = 0 /\ slast.redraws = 0
        /\ slast.logged = 1
        /\ reqs[slast.req].state = "error"
        /\ cache.inflight[slast.reqs[slast.req].tile] = 0

\* C23: a fetch that fails with a network error or an error response leaves
\* loaded, images and rtree unchanged, is caught (and logged) in the promise
\* chain, and has its tile's in-flight entry removed; with every fetch
\* settling, no tile stays marked in-flight forever.
C23_FetchFailureContained ==
    /\ []C23_FailureCaught
    /\ \A t \in Tiles : (cache.inflight[t] # 0) ~> (cache.inflight[t] = 0)

C23_Witness ==
    /\ FailedFetch
    /\ slast.outcome = "badstatus"
    /\ slast.cache.inflight[slast.reqs[slast.req].tile] = slast.req
    /\ slast.cache.loaded # {}
    /\ \E r \in DOMAIN reqs : r # slast.req /\ reqs[r].state = "error"

\* ------------------------------------------------------------ extract claims
InvalidForExtract(id) ==
    \/ ~XGraph[id].exists
    \/ ~XGraph[id].interesting
    \/ XGraph[id].type = "node" /\ XGraph[id].parents = 0

C25_HandlerBoundOnce ==
    /\ \A o \in ServiceObjs : layer.handlers[o] <= 1
    /\ layer.op \in Callers \cup {"constructor"} =>
          (layer.ret # NoService <=> layer.osm # NoService)

\* ------------------------------------------------------------- loader claims
LDid(op) == llast.op = op

\* C26 (as claimed): get for a fileID that is neither cached nor in the file
\* map returns a rejected promise, starts no fetch and leaves _cachedData and
\* _inflight unchanged.
C26_UnknownFileRejected ==
    (LDid("get") /\ llast.loader.cached[llast.fileID] = Undefined
     /\ llast.fileID \notin DOMAIN FileMap) =>
        /\ llast.ret.kind = "rejected"
        /\ fetches = llast.fetches
        /\ loader = llast.loader

\* ------------------------------------------------------------ draw-way claims
DDid(op) == dlast.op = op

\* The state pushed by install is still on the stack, unchanged, when off
\* returns.
TempEditLeft(o) ==
    /\ o.tempIndex \in DOMAIN o.stack
    /\ o.stack[o.tempIndex] = [graph |-> o.tempGraph, annotation |-> annotation]

\* C27 (as claimed): when drawWay.off returns, the annotated no-op state
\* pushed by the install has been replaced or removed, and either a handler
\* resolved the temporary edit or the history was popped back to startGraph.
C27_TempEditResolved ==
    dlast.offs.ran =>
        /\ ~TempEditLeft(dlast.offs)
        /\ \/ dlast.offs.resolved
           \/ dlast.offs.stack[dlast.offs.index].graph = draw.startGraph

\* The part of C27 the code keeps: resolved by a handler, or back at startGraph.
OffResolvedOrReset ==
    dlast.offs.ran =>
        \/ dlast.offs.resolved
        \/ dlast.offs.stack[dlast.offs.index].graph = draw.startGraph

\* C28: after drawWay.cancel returns, called by the user or by finish for a
\* missing or degenerate way, context.graph() is startGraph.
C28_CancelRestoresStartGraph ==
    dlast.cancelled => currentGraph(HMachine) = draw.startGraph

\* a cancel after a draw node was created and a node was added: several
\* states are popped
C28_Witness ==
    /\ DDid("cancel") /\ dlast.cancelled
    /\ draw.created > 0
    /\ dlast.index >= hindex + 2
    /\ currentGraph(HMachine) = draw.startGraph

\* finish on a way left with one node
C28_WitnessFinish ==
    /\ DDid("finish") /\ dlast.cancelled
    /\ dlast.index > hindex

\* C29: after the 'undone' handler the redo stack is empty; the
\* perform(noop) / pop(1) pair leaves the cursor and the states up to it as
\* they were; before the pair no state is popped when the graph is startGraph
\* at entry, and exactly one otherwise.
C29_UndoneClearsRedo ==
    dlast.pair.ran =>
        LET q == dlast.pair
        IN /\ q.afterIndex = Len(q.after)
           /\ hindex = Len(hstack)
           /\ q.afterIndex = q.beforeIndex
           /\ SubSeq(q.after, 1, q.afterIndex) = SubSeq(q.before, 1, q.beforeIndex)
           /\ q.atStart => (q.before = q.entry /\ q.beforeIndex = q.entryIndex)
           /\ ~q.atStart => /\ q.beforeIndex = q.entryIndex - 1
                            /\ Len(q.before) = Len(q.entry) - 1

\* an undo after a node was added: the undo leaves a redo tail, the graph is
\* not startGraph and one more state is popped
C29_Witness ==
    /\ DDid("undone") /\ dlast.pair.ran /\ ~dlast.pair.atStart
    /\ dlast.pair.entryIndex < Len(dlast.pair.entry)
    /\ dlast.pair.afterIndex = Len(dlast.pair.after)

C29_WitnessAtStart ==
    /\ DDid("undone") /\ dlast.pair.ran /\ dlast.pair.atStart
    /\ dlast.pair.entryIndex < Len(dlast.pair.entry)

\* a way of the graph lists only nodes the graph has
Integrity(g) ==
    \A w \in {"w", "v"} :
        hasEntity(g, w) =>
            \A i \in DOMAIN graphEntity(g, w).nodes :
                hasEntity(g, graphEntity(g, w).nodes[i])

\* C30: every graph the draw-way edits produce, the graphs between the chained
\* replace / remove calls of an action included, keeps referential integrity:
\* the draw node is detached from the way before it is removed.
C30_DrawEditsKeepIntegrity ==
    draw # <<>> => \A i \in DOMAIN graphs : Integrity(graphs[i])

\* actionAddDrawNode, actionDeleteDrawNode and actionReplaceDrawNode have all
\* run: one draw node was deleted, another replaced by the node "b"
C30_Witness ==
    /\ draw # <<>>
    /\ \E i, j \in DOMAIN graphs :
          /\ graphs[i].local["d1"].kind = "tomb"
          /\ graphs[j].local["d2"].kind = "tomb"
          /\ \E k \in DOMAIN graphEntity(graphs[j], wayID).nodes :
                graphEntity(graphs[j], wayID).nodes[k] = "b"

\* C31: while a fetch for a file is pending, a further get for that file
\* returns the pending promise of that fetch and starts no fetch; at most one
\* fetch per URL is pending at any time.
PendingOn(url) == {f \in DOMAIN fetches : fetches[f].url = url /\ fetches[f].state = "pending"}

C31_InflightDeduplicated ==
    /\ \A url \in Urls : Cardinality(PendingOn(url)) <= 1
    /\ \A url \in Urls : \A f \in PendingOn(url) : loader.inflight[url] = f
    /\ (LDid("get") /\ llast.fileID \in DOMAIN FileMap
        /\ llast.loader.inflight[FileMap[llast.fileID]] # 0) =>
          /\ llast.ret = Pending(llast.loader.inflight[FileMap[llast.fileID]])
          /\ fetches = llast.fetches
          /\ loader = llast.loader

\* a second get while the first fetch is pending, after an earlier fetch of
\* the same file has failed
C31_Witness ==
    /\ LDid("get") /\ llast.fileID = "intro_graph"
    /\ llast.loader.inflight[FileMap["intro_graph"]] = 2
    /\ llast.ret = Pending(2)
    /\ fetches[1].state = "rejected"
    /\ Len(fetches) = 2

FailedSettle == LDid("settle") /\ llast.outcome # "data"

FetchesFresh ==
    (LDid("get") /\ llast.fileID \in DOMAIN FileMap
     /\ llast.loader.cached[llast.fileID] = Undefined
     /\ llast.loader.inflight[FileMap[llast.fileID]] = 0) =>
        /\ Len(fetches) = Len(llast.fetches) + 1
        /\ llast.ret = Pending(Len(fetches))
        /\ fetches[Len(fetches)] = [url |-> FileMap[llast.fileID],
                                    fileID |-> llast.fileID, state |-> "pending"]

C32_FailureState ==
    /\ FailedSettle =>
          /\ fetches[llast.fetch].state = "rejected"
          /\ loader.cached = llast.loader.cached
          /\ loader.cached[llast.fileID] = Undefined
          /\ loader.inflight[FileMap[llast.fileID]] = 0
    /\ FetchesFresh
    /\ \A url \in Urls :
          loader.inflight[url] # 0 => fetches[loader.inflight[url]].state = "pending"

\* C32: a fetch that fails (network error, response not ok, 204/205, falsy
\* result) rejects the promise, caches nothing, removes the in-flight entry of
\* its URL, and a later get of the file starts a new fetch; with fetches
\* settling, every in-flight entry is eventually removed.
C32_FailureHandled ==
    /\ []C32_FailureState
    /\ \A url \in Urls : (loader.inflight[url] # 0) ~> (loader.inflight[url] = 0)

\* a get that starts a new fetch after the fetch of the same file has failed
C32_Witness ==
    /\ LDid("get") /\ llast.fileID = "imagery"
    /\ Len(llast.fetches) = 2 /\ Len(fetches) = 3
    /\ \E f \in DOMAIN llast.fetches :
          llast.fetches[f] = [url |-> FileMap["imagery"], fileID |-> "imagery",
                              state |-> "rejected"]
    /\ loader.cached["imagery"] = Undefined

\* C33: a cached value is never replaced or removed; a get of a cached file
\* resolves with it and starts no fetch; a cached file has no in-flight entry.
C33_CacheState ==
    /\ (LDid("get") /\ llast.loader.cached[llast.fileID] # Undefined) =>
          /\ llast.ret = Resolved(llast.loader.cached[llast.fileID])
          /\ fetches = llast.fetches
          /\ loader = llast.loader
    /\ \A f \in DOMAIN FileMap :
          loader.cached[f] # Undefined =>
              /\ loader.inflight[FileMap[f]] = 0
              /\ (llast.loader.cached[f] # Undefined => loader.cached[f] = llast.loader.cached[f])

C33_CacheWriteOnce ==
    /\ []C33_CacheState
    /\ [][\A f \in FileIDs : loader.cached[f] # Undefined =>
                                 loader'.cached[f] = loader.cached[f]]_vars

\* a get of a file a fetch has cached, while the other file is being fetched
C33_Witness ==
    /\ LDid("get") /\ llast.fileID = "intro_graph"
    /\ llast.loader.cached["intro_graph"] = Json[1]
    /\ llast.ret = Resolved(Json[1])
    /\ loader.inflight[FileMap["imagery"]] # 0

\* ------------------------------------------------------- tile service claims
\* requests of a tile that were issued and have neither completed nor been
\* aborted
LiveRequests(tile) ==
    {r \in DOMAIN reqs : reqs[r].tile = tile /\ reqs[r].state = "pending"
                         /\ ~reqs[r].aborted}

IssuedByLast == (Len(slast.reqs) + 1)..Len(reqs)

\* C34 (as claimed): a tile of the loaded set is never requested again, and
\* at any time at most one request per tile is issued and neither completed
\* nor aborted.
C34_NoDuplicateRequests ==
    /\ \A tile \in Tiles : Cardinality(LiveRequests(tile)) <= 1
    /\ \A r \in IssuedByLast : reqs[r].tile \notin slast.cache.loaded

\* The part of C34 the code keeps: no request for a tile of the loaded set.
LoadedNotRequested ==
    \A r \in IssuedByLast : reqs[r].tile \notin slast.cache.loaded

\* C35 (as claimed): after a loadTiles call that saw a new viewport version,
\* every tile of the view is loaded or has an in-flight request that has not
\* been aborted.
C35_ViewCovered ==
    (SDid("loadTiles") /\ slast.svc._lastv # viewport.v) =>
        \A tile \in viewport.tiles :
            \/ tile \in cache.loaded
            \/ /\ cache.inflight[tile] # 0
               /\ ~reqs[cache.inflight[tile]].aborted

\* The part of C35 the code keeps: every tile of the view is loaded or has an
\* entry in the in-flight map, aborted or not.
ViewLoadedOrInflight ==
    (SDid("loadTiles") /\ slast.svc._lastv # viewport.v) =>
        \A tile \in viewport.tiles : tile \in cache.loaded \/ cache.inflight[tile] # 0

\* C36 (as claimed): resetAsync aborts every in-flight request, empties
\* rtree, inflight, loaded and images, and clears the last-seen viewport
\* version.
C36_ResetClearsState ==
    SDid("resetAsync") =>
        /\ \A r \in InflightIds(slast.cache, Tiles) : reqs[r].aborted
        /\ cache.rtree = {} /\ cache.loaded = {} /\ cache.images = {}
        /\ \A tile \in Tiles : cache.inflight[tile] = 0
        /\ svc._lastv = Null

\* The part of C36 the code keeps: the requests are aborted, the cache is new.
ResetEmptiesCache ==
    SDid("resetAsync") =>
        /\ \A r \in InflightIds(slast.cache, Tiles) : reqs[r].aborted
        /\ cache.rtree = {} /\ cache.loaded = {} /\ cache.images = {}
        /\ \A tile \in Tiles : cache.inflight[tile] = 0

\* loadTiles right after a reset, the viewport unchanged: nothing is requested
LoadAfterResetSkipped ==
    /\ SDid("loadTiles")
    /\ slast.cache = NewCache(slast.cache.gen) /\ slast.cache.gen > 0
    /\ reqs = slast.reqs
    /\ viewport.tiles # {}

\* C37: every handler of the draw-way behaviour resumes change dispatch once
\* for each pause before it returns: when a handler has returned the pause
\* depth is zero, it was never negative, and dispatch is not paused.
C37_PauseResumeBalanced ==
    draw # <<>> =>
        /\ dlast.depth = 0
        /\ dlast.low >= 0
        /\ paused = None

\* an accepted addNode: createDrawNode, attemptAdd and the install of the
\* re-entered mode pause and resume once each
C37_Witness ==
    /\ DDid("addNode")
    /\ dlast.pauses = 3
    /\ dlast.depth = 0
    /\ draw.phase = "on"

\* a rejected add that removes the draw node again
C37_WitnessRejected ==
    /\ DDid("add")
    /\ dlast.pauses = 2
    /\ draw.phase = "on" /\ draw.drawNode = 0 /\ ~draw.resolved
    /\ dlast.index = hindex

\* C38: resetToStartGraph terminates in every history state reached while
\* the behaviour is installed: startGraph is the graph of a state at or below
\* the cursor, so cancel and off return.
C38_ResetTerminates ==
    draw # <<>> =>
        /\ draw.phase # "hung"
        /\ draw.phase = "on" =>
              \E i \in 1..hindex : hstack[i].graph = draw.startGraph

\* an interrupted drawing after a node was added: off pops several states
\* until the graph is startGraph
C38_Witness ==
    /\ DDid("off") /\ draw.phase = "off"
    /\ ~dlast.offs.resolved
    /\ dlast.index >= hindex + 2
    /\ currentGraph(HMachine) = draw.startGraph

\* ----------------------------------------------------- mergeTags versions
\* C39 (as claimed): when the merged tag map equals the receiver's, mergeTags
\* returns the receiver itself; otherwise it returns a new entity with a
\* fresh version and leaves the receiver as it was.
C39_NewVersionOnlyOnChange ==
    Called("mergeTags") =>
        /\ Returned.tags = last.before.tags => last.ret = last.recv
        /\ Returned.tags # last.before.tags =>
              /\ last.ret # last.recv
              /\ Returned.v # last.before.v
              /\ heap[last.recv] = last.before

\* The part of C39 the code keeps: changed tags come in a new entity with a
\* fresh version, the receiver stays as it was.
ChangedTagsNewVersion ==
    Called("mergeTags") =>
        /\ heap[last.recv] = last.before
        /\ Returned.tags # last.before.tags =>
              /\ last.ret # last.recv
              /\ Returned.v # last.before.v

\* a merge that returns a new entity whose tags equal the receiver's
SameTagsNewVersion ==
    /\ Called("mergeTags")
    /\ Returned.tags = last.before.tags
    /\ last.ret # last.recv
    /\ last.before.tags["name"] = Str(<<"a", ";">>)
    /\ last.arg["name"] = Str(<<"a">>)

====
